---------------------------- MODULE Spec2Model ----------------------------
(***************************************************************************)
(* Model of the containers of src/src/data_structures: the linked lists,   *)
(* Stack, Queue, HashMap and Heap.  Every container object is one record   *)
(* variable; every method is an operator from the object's state (and the  *)
(* arguments) to the state after the call, its return value and the        *)
(* exception it raised.  One action per public method applies the operator *)
(* to the object the client constructed (cls names its class).             *)
(***************************************************************************)
EXTENDS Integers, Sequences, FiniteSets, TLC

\* ------------------------------------------------------------------ bounds
\* Longest list / stack / queue / heap, and the size of the node pool.
MaxLen == 6
\* Longest recorded history of pushes/pops and enqueues/dequeues.
MaxHist == 6
\* Longest heap that push still extends.
MaxHeapLen == 5
\* Longest list handed to heapify.
MaxInput == 4
\* Size of the pool of tree nodes: one more than the values inserted.
MaxTree == 8

\* Element values handed to the containers.
Values == {1, 2}
\* Indices handed to insert() and get(): every valid one and both invalid sides.
Indices == -1 .. (MaxLen + 1)

\* ------------------------------------------------------------ call results
\* A call returns normally with a value (<<>> stands for None / no value) ...
Return(st, ret) == [st |-> st, ret |-> ret, err |-> "none"]
\* ... or raises, leaving the state as it was when the raise was reached.
Raise(st, exc) == [st |-> st, ret |-> <<>>, err |-> exc]

\* ------------------------------------------------- doubly linked list nodes
NULL == 0
Nodes == 1 .. MaxLen

\* DoublyLinkedList.__init__
EmptyDLL ==
    [head |-> NULL, tail |-> NULL, length |-> 0,
     data |-> [n \in Nodes |-> 0],
     next |-> [n \in Nodes |-> NULL],
     prev |-> [n \in Nodes |-> NULL]]

\* The nodes the list object still references, directly or through nodes.
RECURSIVE DLL_closure(_, _)
DLL_closure(l, S) ==
    LET T == (S \cup {l.next[n] : n \in S} \cup {l.prev[n] : n \in S}) \ {NULL}
    IN  IF T = S THEN S ELSE DLL_closure(l, T)

DLL_live(l) == DLL_closure(l, {l.head, l.tail} \ {NULL})

\* The nodes in the order next leads through them from the head.
RECURSIVE DLL_chain(_, _, _)
DLL_chain(l, current, seen) ==
    IF current = NULL \/ current \in seen THEN <<>>
    ELSE <<current>> \o DLL_chain(l, l.next[current], seen \cup {current})

\* A set of node addresses, lowest first.
RECURSIVE SortedNodes(_)
SortedNodes(S) ==
    IF S = {} THEN <<>>
    ELSE LET n == CHOOSE x \in S : \A y \in S : x <= y
         IN  <<n>> \o SortedNodes(S \ {n})

\* Memory management.  Node addresses are not observable, so after every
\* call the nodes still referenced are moved to the lowest addresses, in the
\* order next leads through them from the head (then any others), with every
\* link following its node; the nodes nothing references are reclaimed.
DLL_collect(l) ==
    LET chain == DLL_chain(l, l.head, {})
        order == chain \o SortedNodes(DLL_live(l) \ {chain[k] : k \in 1 .. Len(chain)})
        addr(n) == IF n = NULL THEN NULL
                   ELSE CHOOSE k \in 1 .. Len(order) : order[k] = n
    IN  [head |-> addr(l.head), tail |-> addr(l.tail), length |-> l.length,
         data |-> [k \in Nodes |-> IF k <= Len(order) THEN l.data[order[k]] ELSE 0],
         next |-> [k \in Nodes |-> IF k <= Len(order) THEN addr(l.next[order[k]]) ELSE NULL],
         prev |-> [k \in Nodes |-> IF k <= Len(order) THEN addr(l.prev[order[k]]) ELSE NULL]]

\* The address of a newly allocated node: some node that is not in use.
DLL_new(l) == CHOOSE n \in Nodes \ DLL_live(l) : \A m \in Nodes \ DLL_live(l) : n <= m

\* Node.__init__(data)
DLL_Node(l, n, data) ==
    [l EXCEPT !.data[n] = data, !.next[n] = NULL, !.prev[n] = NULL]

\* for _ in range(k): if current: current = current.next
RECURSIVE DLL_walk_next(_, _, _)
DLL_walk_next(l, current, k) ==
    IF k <= 0 THEN current
    ELSE DLL_walk_next(l, IF current # NULL THEN l.next[current] ELSE current, k - 1)

\* A walk towards the head that stops one node early.
RECURSIVE DLL_walk_prev_one_short(_, _, _)
DLL_walk_prev_one_short(l, current, k) ==
    IF k <= 1 THEN current
    ELSE DLL_walk_prev_one_short(l, IF current # NULL THEN l.prev[current]
                                    ELSE current, k - 1)

\* for _ in range(k): if current: current = current.prev
RECURSIVE DLL_walk_prev(_, _, _)
DLL_walk_prev(l, current, k) ==
    IF k <= 0 THEN current
    ELSE DLL_walk_prev(l, IF current # NULL THEN l.prev[current] ELSE current, k - 1)

\* A search that goes on after a match and so finds the last match.
RECURSIVE DLL_find_last(_, _, _)
DLL_find_last(l, current, key) ==
    IF current = NULL THEN NULL
    ELSE LET later == DLL_find_last(l, l.next[current], key)
         IN  IF later # NULL THEN later
             ELSE IF l.data[current] = key THEN current
             ELSE NULL

\* while current: if current.data == key: <found>; current = current.next
RECURSIVE DLL_find(_, _, _)
DLL_find(l, current, key) ==
    IF current = NULL THEN NULL
    ELSE IF l.data[current] = key THEN current
    ELSE DLL_find(l, l.next[current], key)

\* DoublyLinkedList.is_empty
DLL_is_empty(l) == l.head = NULL

\* DoublyLinkedList.__len__
DLL_len(l) == l.length

\* DoublyLinkedList.traverse
RECURSIVE DLL_collect_from(_, _)
DLL_collect_from(l, current) ==
    IF current = NULL THEN <<>>
    ELSE <<l.data[current]>> \o DLL_collect_from(l, l.next[current])

DLL_traverse(l) == DLL_collect_from(l, l.head)

\* DoublyLinkedList.append
DLL_append(l, data) ==
    LET new_node == DLL_new(l)
        m == DLL_Node(l, new_node, data)
    IN  IF m.head = NULL
        THEN [m EXCEPT !.head = new_node, !.tail = new_node, !.length = @ + 1]
        ELSE IF m.tail # NULL
             THEN [m EXCEPT !.next[m.tail] = new_node,
                            !.prev[new_node] = m.tail,
                            !.tail = new_node,
                            !.length = @ + 1]
             ELSE [m EXCEPT !.length = @ + 1]

\* DoublyLinkedList.prepend
DLL_prepend(l, data) ==
    LET new_node == DLL_new(l)
        m == DLL_Node(l, new_node, data)
    IN  IF m.head = NULL
        THEN [m EXCEPT !.head = new_node, !.tail = new_node, !.length = @ + 1]
        ELSE [m EXCEPT !.next[new_node] = m.head,
                       !.prev[m.head] = new_node,
                       !.head = new_node,
                       !.length = @ + 1]

\* DoublyLinkedList.insert rejecting index == len(): `index >= self._length`.
DLL_insert_rejects_end(l, index, data) ==
    IF index < 0 \/ index >= l.length THEN Raise(l, "IndexError")
    ELSE IF index = 0 THEN Return(DLL_prepend(l, data), <<>>)
    ELSE
      LET new_node == DLL_new(l)
          m == DLL_Node(l, new_node, data)
          current == IF index <= m.length \div 2
                     THEN DLL_walk_next(m, m.head, index)
                     ELSE DLL_walk_prev(m, m.tail, (m.length - 1) - index)
          linked == IF current # NULL /\ m.prev[current] # NULL
                    THEN [m EXCEPT !.next[new_node] = current,
                                   !.prev[new_node] = m.prev[current],
                                   !.next[m.prev[current]] = new_node,
                                   !.prev[current] = new_node]
                    ELSE m
      IN  Return([linked EXCEPT !.length = @ + 1], <<>>)

\* DoublyLinkedList.insert
DLL_insert(l, index, data) ==
    IF index < 0 \/ index > l.length THEN Raise(l, "IndexError")
    ELSE IF index = 0 THEN Return(DLL_prepend(l, data), <<>>)
    ELSE IF index = l.length THEN Return(DLL_append(l, data), <<>>)
    ELSE
      LET new_node == DLL_new(l)
          m == DLL_Node(l, new_node, data)
          current == IF index <= m.length \div 2
                     THEN DLL_walk_next(m, m.head, index)
                     ELSE DLL_walk_prev(m, m.tail, (m.length - 1) - index)
          linked == IF current # NULL /\ m.prev[current] # NULL
                    THEN [m EXCEPT !.next[new_node] = current,
                                   !.prev[new_node] = m.prev[current],
                                   !.next[m.prev[current]] = new_node,
                                   !.prev[current] = new_node]
                    ELSE m
      IN  Return([linked EXCEPT !.length = @ + 1], <<>>)

\* DoublyLinkedList.delete without `current.next.prev = current.prev`.
DLL_delete_stale_prev(l, key) ==
    LET current == DLL_find(l, l.head, key)
    IN  IF current = NULL THEN Return(l, <<FALSE>>)
        ELSE
          LET l1 == IF l.prev[current] # NULL
                    THEN [l EXCEPT !.next[l.prev[current]] = l.next[current]]
                    ELSE [l EXCEPT !.head = l.next[current]]
              l2 == IF l1.next[current] # NULL
                    THEN l1
                    ELSE [l1 EXCEPT !.tail = l1.prev[current]]
          IN  Return([l2 EXCEPT !.length = @ - 1], <<TRUE>>)

\* DoublyLinkedList.delete
DLL_delete(l, key) ==
    LET current == DLL_find(l, l.head, key)
    IN  IF current = NULL THEN Return(l, <<FALSE>>)
        ELSE
          LET l1 == IF l.prev[current] # NULL
                    THEN [l EXCEPT !.next[l.prev[current]] = l.next[current]]
                    ELSE [l EXCEPT !.head = l.next[current]]
              l2 == IF l1.next[current] # NULL
                    THEN [l1 EXCEPT !.prev[l1.next[current]] = l1.prev[current]]
                    ELSE [l1 EXCEPT !.tail = l1.prev[current]]
          IN  Return([l2 EXCEPT !.length = @ - 1], <<TRUE>>)

\* DoublyLinkedList.pop_front without `self._tail = None` for the last node.
DLL_pop_front_keeps_tail(l) ==
    IF DLL_is_empty(l) \/ l.head = NULL THEN Raise(l, "IndexError")
    ELSE
      LET value == l.data[l.head]
          l1 == [l EXCEPT !.head = l.next[l.head]]
          l2 == IF l1.head # NULL
                THEN [l1 EXCEPT !.prev[l1.head] = NULL]
                ELSE l1
      IN  Return([l2 EXCEPT !.length = @ - 1], <<value>>)

\* DoublyLinkedList.pop_front
DLL_pop_front(l) ==
    IF DLL_is_empty(l) \/ l.head = NULL THEN Raise(l, "IndexError")
    ELSE
      LET value == l.data[l.head]
          l1 == [l EXCEPT !.head = l.next[l.head]]
          l2 == IF l1.head # NULL
                THEN [l1 EXCEPT !.prev[l1.head] = NULL]
                ELSE [l1 EXCEPT !.tail = NULL]
      IN  Return([l2 EXCEPT !.length = @ - 1], <<value>>)

\* DoublyLinkedList.search
DLL_search(l, key) == DLL_find(l, l.head, key) # NULL

\* DoublyLinkedList.get walking one node too few from the tail:
\* `range(self._length - 1, index + 1, -1)`.
DLL_get_short_walk(l, index) ==
    IF index < 0 \/ index >= l.length THEN Raise(l, "IndexError")
    ELSE
      LET current == IF index <= l.length \div 2
                     THEN DLL_walk_next(l, l.head, index)
                     ELSE DLL_walk_prev(l, l.tail, (l.length - 1) - (index + 1))
      IN  IF current # NULL THEN Return(l, <<l.data[current]>>)
          ELSE Raise(l, "IndexError")

\* DoublyLinkedList.get
DLL_get(l, index) ==
    IF index < 0 \/ index >= l.length THEN Raise(l, "IndexError")
    ELSE
      LET current == IF index <= l.length \div 2
                     THEN DLL_walk_next(l, l.head, index)
                     ELSE DLL_walk_prev(l, l.tail, (l.length - 1) - index)
      IN  IF current # NULL THEN Return(l, <<l.data[current]>>)
          ELSE Raise(l, "IndexError")

\* DoublyLinkedList.peek_front
DLL_peek_front(l) ==
    IF DLL_is_empty(l) \/ l.head = NULL THEN Raise(l, "IndexError")
    ELSE Return(l, <<l.data[l.head]>>)

\* DoublyLinkedList.peek_back
DLL_peek_back(l) ==
    IF DLL_is_empty(l) \/ l.tail = NULL THEN Raise(l, "IndexError")
    ELSE Return(l, <<l.data[l.tail]>>)

\* DoublyLinkedList.clear
DLL_clear(l) == [l EXCEPT !.head = NULL, !.tail = NULL, !.length = 0]

\* ------------------------------------------------------- singly linked list
\* SinglyLinkedList.__init__
EmptySLL ==
    [head |-> NULL, length |-> 0,
     data |-> [n \in Nodes |-> 0],
     next |-> [n \in Nodes |-> NULL]]

\* The nodes the list object still references, directly or through nodes.
RECURSIVE SLL_closure(_, _)
SLL_closure(l, S) ==
    LET T == (S \cup {l.next[n] : n \in S}) \ {NULL}
    IN  IF T = S THEN S ELSE SLL_closure(l, T)

SLL_live(l) == SLL_closure(l, {l.head} \ {NULL})

\* The nodes in the order next leads through them from the head.
RECURSIVE SLL_chain(_, _, _)
SLL_chain(l, current, seen) ==
    IF current = NULL \/ current \in seen THEN <<>>
    ELSE <<current>> \o SLL_chain(l, l.next[current], seen \cup {current})

\* Memory management, as for the doubly linked list: the nodes still
\* referenced are moved to the lowest addresses in list order, the others
\* are reclaimed.
SLL_collect(l) ==
    LET order == SLL_chain(l, l.head, {})
        addr(n) == IF n = NULL THEN NULL
                   ELSE CHOOSE k \in 1 .. Len(order) : order[k] = n
    IN  [head |-> addr(l.head), length |-> l.length,
         data |-> [k \in Nodes |-> IF k <= Len(order) THEN l.data[order[k]] ELSE 0],
         next |-> [k \in Nodes |-> IF k <= Len(order) THEN addr(l.next[order[k]]) ELSE NULL]]

\* The address of a newly allocated node: some node that is not in use.
SLL_new(l) == CHOOSE n \in Nodes \ SLL_live(l) : \A m \in Nodes \ SLL_live(l) : n <= m

\* Node.__init__(data)
SLL_Node(l, n, data) == [l EXCEPT !.data[n] = data, !.next[n] = NULL]

\* while current.next: current = current.next
RECURSIVE SLL_last(_, _)
SLL_last(l, current) ==
    IF l.next[current] # NULL THEN SLL_last(l, l.next[current]) ELSE current

\* for _ in range(k): if current: current = current.next
RECURSIVE SLL_walk(_, _, _)
SLL_walk(l, current, k) ==
    IF k <= 0 THEN current
    ELSE SLL_walk(l, IF current # NULL THEN l.next[current] ELSE current, k - 1)

\* The loop of delete(): the first node with data == key and its predecessor
\* (NULL for the head), or current = NULL when the walk falls off the end.
RECURSIVE SLL_find(_, _, _, _)
SLL_find(l, prev, current, key) ==
    IF current = NULL THEN [prev |-> prev, current |-> NULL]
    ELSE IF l.data[current] = key THEN [prev |-> prev, current |-> current]
    ELSE SLL_find(l, current, l.next[current], key)

\* SinglyLinkedList.is_empty
SLL_is_empty(l) == l.head = NULL

\* SinglyLinkedList.__len__
SLL_len(l) == l.length

\* SinglyLinkedList.traverse
RECURSIVE SLL_collect_from(_, _)
SLL_collect_from(l, current) ==
    IF current = NULL THEN <<>>
    ELSE <<l.data[current]>> \o SLL_collect_from(l, l.next[current])

SLL_traverse(l) == SLL_collect_from(l, l.head)

\* SinglyLinkedList.append
SLL_append(l, data) ==
    LET new_node == SLL_new(l)
        m == SLL_Node(l, new_node, data)
    IN  IF m.head = NULL
        THEN [m EXCEPT !.head = new_node, !.length = @ + 1]
        ELSE [m EXCEPT !.next[SLL_last(m, m.head)] = new_node, !.length = @ + 1]

\* SinglyLinkedList.prepend
SLL_prepend(l, data) ==
    LET new_node == SLL_new(l)
        m == SLL_Node(l, new_node, data)
    IN  [m EXCEPT !.next[new_node] = m.head, !.head = new_node, !.length = @ + 1]

\* SinglyLinkedList.insert rejecting index == len(): `index >= self._length`.
SLL_insert_rejects_end(l, index, data) ==
    IF index < 0 \/ index >= l.length THEN Raise(l, "IndexError")
    ELSE IF index = 0 THEN Return(SLL_prepend(l, data), <<>>)
    ELSE
      LET new_node == SLL_new(l)
          m == SLL_Node(l, new_node, data)
          current == SLL_walk(m, m.head, index - 1)
          linked == IF current # NULL
                    THEN [m EXCEPT !.next[new_node] = m.next[current],
                                   !.next[current] = new_node]
                    ELSE m
      IN  Return([linked EXCEPT !.length = @ + 1], <<>>)

\* SinglyLinkedList.insert
SLL_insert(l, index, data) ==
    IF index < 0 \/ index > l.length THEN Raise(l, "IndexError")
    ELSE IF index = 0 THEN Return(SLL_prepend(l, data), <<>>)
    ELSE
      LET new_node == SLL_new(l)
          m == SLL_Node(l, new_node, data)
          current == SLL_walk(m, m.head, index - 1)
          linked == IF current # NULL
                    THEN [m EXCEPT !.next[new_node] = m.next[current],
                                   !.next[current] = new_node]
                    ELSE m
      IN  Return([linked EXCEPT !.length = @ + 1], <<>>)

\* SinglyLinkedList.delete without `self._length -= 1`.
SLL_delete_keeps_length(l, key) ==
    LET f == SLL_find(l, NULL, l.head, key)
    IN  IF f.current = NULL THEN Return(l, <<FALSE>>)
        ELSE
          LET l1 == IF f.prev # NULL
                    THEN [l EXCEPT !.next[f.prev] = l.next[f.current]]
                    ELSE [l EXCEPT !.head = l.next[f.current]]
          IN  Return(l1, <<TRUE>>)

\* SinglyLinkedList.delete
SLL_delete(l, key) ==
    LET f == SLL_find(l, NULL, l.head, key)
    IN  IF f.current = NULL THEN Return(l, <<FALSE>>)
        ELSE
          LET l1 == IF f.prev # NULL
                    THEN [l EXCEPT !.next[f.prev] = l.next[f.current]]
                    ELSE [l EXCEPT !.head = l.next[f.current]]
          IN  Return([l1 EXCEPT !.length = @ - 1], <<TRUE>>)

\* SinglyLinkedList.clear
SLL_clear(l) == [l EXCEPT !.head = NULL, !.length = 0]

\* SinglyLinkedList.search
SLL_search(l, key) == SLL_find(l, NULL, l.head, key).current # NULL

\* SinglyLinkedList.get
SLL_get(l, index) ==
    IF index < 0 \/ index >= l.length THEN Raise(l, "IndexError")
    ELSE
      LET current == SLL_walk(l, l.head, index)
      IN  IF current # NULL THEN Return(l, <<l.data[current]>>)
          ELSE Raise(l, "IndexError")

\* A list object in the client's hands.  It is either a list of its own,
\* with the elements in `list`, or the very list object the container keeps
\* its elements in (`same`), whose elements are the container's.
NoList == [held |-> FALSE, same |-> FALSE, list |-> <<>>]
NewList(list) == [held |-> TRUE, same |-> FALSE, list |-> list]
SameList == [held |-> TRUE, same |-> TRUE, list |-> <<>>]

\* The element tests/test_queue.py appends to the list traverse() returned.
Appended == 999

\* ------------------------------------------------------------------- Stack
\* Stack.__init__
EmptyStack == <<>>

\* Stack.is_empty
Stack_is_empty(items) == Len(items) = 0

\* Stack.__len__
Stack_len(items) == Len(items)

\* Stack.push
Stack_push(items, item) == Append(items, item)

\* Stack.pop removing the bottom element: self._items.pop(0).
Stack_pop_bottom(items) ==
    IF Stack_is_empty(items) THEN Raise(items, "IndexError")
    ELSE Return(SubSeq(items, 2, Len(items)), <<items[1]>>)

\* Stack.pop
Stack_pop(items) ==
    IF Stack_is_empty(items) THEN Raise(items, "IndexError")
    ELSE Return(SubSeq(items, 1, Len(items) - 1), <<items[Len(items)]>>)

\* Stack.clear
Stack_clear(items) == <<>>

\* Stack.peek returning None on an empty stack instead of raising.
Stack_peek_none(items) ==
    IF Stack_is_empty(items) THEN Return(items, <<>>)
    ELSE Return(items, <<items[Len(items)]>>)

\* Stack.peek
Stack_peek(items) ==
    IF Stack_is_empty(items) THEN Raise(items, "IndexError")
    ELSE Return(items, <<items[Len(items)]>>)

\* Stack.traverse
Stack_traverse(items) == items

\* Stack.traverse, the list object returned: list(self._items), a new list.
Stack_traverse_list(items) == NewList(Stack_traverse(items))

\* Stack.traverse of src/data_structures/stacks/stack.py, the list object
\* returned: `return self._items`, the stack's own list.
TopStack_traverse_list(items) == SameList

\* ------------------------------------------------------------------- Queue
\* Queue.__init__: _items is a DoublyLinkedList
EmptyQueue == EmptyDLL

\* Queue.is_empty
Queue_is_empty(items) == DLL_is_empty(items)

\* Queue.__len__
Queue_len(items) == DLL_len(items)

\* Queue.enqueue adding at the head of the backing list instead of its tail.
Queue_enqueue_prepends(items, item) == DLL_prepend(items, item)

\* Queue.enqueue
Queue_enqueue(items, item) == DLL_append(items, item)

\* Queue.dequeue
Queue_dequeue(items) ==
    IF Queue_is_empty(items) THEN Raise(items, "IndexError")
    ELSE DLL_pop_front(items)

\* Queue.clear
Queue_clear(items) == DLL_clear(items)

\* Queue.front reading the tail of the backing list.
Queue_front_reads_back(items) ==
    IF Queue_is_empty(items) THEN Raise(items, "IndexError")
    ELSE DLL_peek_back(items)

\* Queue.front
Queue_front(items) ==
    IF Queue_is_empty(items) THEN Raise(items, "IndexError")
    ELSE DLL_peek_front(items)

\* Queue.back
Queue_back(items) ==
    IF Queue_is_empty(items) THEN Raise(items, "IndexError")
    ELSE DLL_peek_back(items)

\* Queue.traverse
Queue_traverse(items) == DLL_traverse(items)

\* Queue.traverse, the list object returned: the list DoublyLinkedList.traverse
\* builds.
Queue_traverse_list(items) == NewList(Queue_traverse(items))

\* -------------------------------------------------------------------- Heap
\* Heap.__init__
EmptyHeap == <<>>

\* The classes of heap.py: the base class and its two subclasses.
HeapClasses == {"Heap", "MaxHeap", "MinHeap"}
\* The classes of max_heap.py and min_heap.py (subclasses of heap.py's Heap).
StrategyClasses == {"max_heap.MaxHeap", "min_heap.MinHeap"}
AnyHeap == HeapClasses \cup StrategyClasses

\* The lists a client hands to heapify: up to MaxInput elements, with
\* duplicates.
HeapValues == {1, 2, 3}
HeapInputs == UNION {[1 .. n -> HeapValues] : n \in 0 .. MaxInput}

\* The list of tests/test_heap.py, and the lists a client cuts out of it.
TEST_DATA_INPUT == <<12, -3, 7, 12, -10, 0, 25, 8, 5, -2>>
DataInputs ==
    {SubSeq(TEST_DATA_INPUT, i, j) :
        i \in 1 .. Len(TEST_DATA_INPUT), j \in 0 .. Len(TEST_DATA_INPUT)}

\* MaxHeap._is_better of max_heap.py
max_heap_is_better(val1, val2) == val1 < val2

\* MinHeap._is_better of min_heap.py
min_heap_is_better(val1, val2) == val1 > val2

\* MaxHeap._is_better / MinHeap._is_better of heap.py with the comparisons
\* exchanged.
Heap_is_better_inverted(c, val1, val2) ==
    IF c = "MaxHeap" THEN Return(c, <<val1 < val2>>)
    ELSE IF c = "MinHeap" THEN Return(c, <<val1 > val2>>)
    ELSE IF c = "max_heap.MaxHeap" THEN Return(c, <<max_heap_is_better(val1, val2)>>)
    ELSE IF c = "min_heap.MinHeap" THEN Return(c, <<min_heap_is_better(val1, val2)>>)
    ELSE Raise(c, "NotImplementedError")

\* self._is_better(val1, val2) on an object of class c: MaxHeap and MinHeap
\* of heap.py override it, as do the classes of max_heap.py and min_heap.py;
\* Heap._is_better raises.
Heap_is_better(c, val1, val2) ==
    IF c = "MaxHeap" THEN Return(c, <<val1 > val2>>)
    ELSE IF c = "MinHeap" THEN Return(c, <<val1 < val2>>)
    ELSE IF c = "max_heap.MaxHeap" THEN Return(c, <<max_heap_is_better(val1, val2)>>)
    ELSE IF c = "min_heap.MinHeap" THEN Return(c, <<min_heap_is_better(val1, val2)>>)
    ELSE Raise(c, "NotImplementedError")

\* arr[i], arr[j] = arr[j], arr[i]   (Python indices start at 0)
Heap_swap(arr, i, j) ==
    [arr EXCEPT ![i + 1] = arr[j + 1], ![j + 1] = arr[i + 1]]

\* Heap._sift_down: `a and b` does not evaluate b when a is false; an
\* exception of _is_better leaves arr as the swaps so far made it.
RECURSIVE Heap_sift_down(_, _, _, _)
Heap_sift_down(c, arr, n, i) ==
    LET left == 2 * i + 1
        right == 2 * i + 2
        b1 == IF left < n THEN Heap_is_better(c, arr[left + 1], arr[i + 1])
              ELSE Return(c, <<FALSE>>)
        s1 == IF b1.ret[1] THEN left ELSE i
        b2 == IF right < n THEN Heap_is_better(c, arr[right + 1], arr[s1 + 1])
              ELSE Return(c, <<FALSE>>)
        smallest == IF b2.ret[1] THEN right ELSE s1
    IN  IF b1.err # "none" THEN Raise(arr, b1.err)
        ELSE IF b2.err # "none" THEN Raise(arr, b2.err)
        ELSE IF smallest # i
        THEN Heap_sift_down(c, Heap_swap(arr, i, smallest), n, smallest)
        ELSE Return(arr, <<>>)

\* Heap._sift_up
RECURSIVE Heap_sift_up(_, _, _)
Heap_sift_up(c, arr, i) ==
    IF i = 0 THEN Return(arr, <<>>)
    ELSE LET parent == (i - 1) \div 2
             b == Heap_is_better(c, arr[i + 1], arr[parent + 1])
         IN  IF b.err # "none" THEN Raise(arr, b.err)
             ELSE IF b.ret[1]
             THEN Heap_sift_up(c, Heap_swap(arr, i, parent), parent)
             ELSE Return(arr, <<>>)

\* Heap.is_empty
Heap_is_empty(h) == Len(h) = 0

\* Heap.__len__
Heap_len(h) == Len(h)

\* Heap.heapify, the loop `for i in range(n // 2 - 1, -1, -1)`
RECURSIVE Heap_heapify_from(_, _, _, _)
Heap_heapify_from(c, arr, n, i) ==
    IF i < 0 THEN Return(arr, <<>>)
    ELSE LET r == Heap_sift_down(c, arr, n, i)
         IN  IF r.err # "none" THEN r
             ELSE Heap_heapify_from(c, r.st, n, i - 1)

\* Heap.heapify sifting the first half of the array from the top down.
Heap_heapify_top_down(c, h, arr) ==
    LET n == Len(arr)
        r == IF n < 2 THEN Return(arr, <<>>)
             ELSE Heap_sift_down(c, arr, n, 0)
    IN  IF r.err # "none" THEN Raise(h, r.err) ELSE Return(r.st, <<>>)

\* Heap.heapify: _heap is assigned after the loop, so an exception of the
\* loop leaves the heap as it was.
Heap_heapify(c, h, arr) ==
    LET n == Len(arr)
        r == Heap_heapify_from(c, arr, n, (n \div 2) - 1)
    IN  IF r.err # "none" THEN Raise(h, r.err) ELSE Return(r.st, <<>>)

\* Heap.heapify keeping the caller's list as its array: self._heap = arr.
Heap_heapify_arr_kept(c, arr) == SameList

\* Heap.heapify, the caller's list after the call: the loop sifts arr itself,
\* and `self._heap = list(arr)` gives the heap a list of its own.
Heap_heapify_arr(c, arr) ==
    NewList(Heap_heapify_from(c, arr, Len(arr), (Len(arr) \div 2) - 1).st)

\* Heap.push: the element is appended before the sift, and stays appended
\* when the sift raises.
Heap_push(c, h, data) ==
    LET appended == Append(h, data)
    IN  Heap_sift_up(c, appended, Len(appended) - 1)

\* Heap.pop putting the last element at the root without sifting it down.
Heap_pop_no_sift(c, h) ==
    IF Heap_is_empty(h) THEN Raise(h, "IndexError")
    ELSE
      LET popped == SubSeq(h, 1, Len(h) - 1)
      IN  IF ~Heap_is_empty(popped)
          THEN Return([popped EXCEPT ![1] = h[Len(h)]], <<h[1]>>)
          ELSE Return(popped, <<h[1]>>)

\* Heap.pop: the last element has replaced the root when the sift runs, and
\* stays there when the sift raises.
Heap_pop(c, h) ==
    IF Heap_is_empty(h) THEN Raise(h, "IndexError")
    ELSE
      LET root_data == h[1]
          last_element == h[Len(h)]
          popped == SubSeq(h, 1, Len(h) - 1)
      IN  IF ~Heap_is_empty(popped)
          THEN LET r == Heap_sift_down(c, [popped EXCEPT ![1] = last_element],
                                       Len(popped), 0)
               IN  IF r.err # "none" THEN r ELSE Return(r.st, <<root_data>>)
          ELSE Return(popped, <<root_data>>)

\* Heap.sort, the loop `while not self.is_empty(): result.append(self.pop())`
RECURSIVE Heap_sort_drain(_, _, _)
Heap_sort_drain(c, h, result) ==
    IF Heap_is_empty(h) THEN Return(h, <<result>>)
    ELSE LET r == Heap_pop(c, h)
         IN  IF r.err # "none" THEN r
             ELSE Heap_sort_drain(c, r.st, Append(result, r.ret[1]))

\* Heap.sort without the `finally`: the heap stays as the drain left it.
Heap_sort_no_restore(c, h) == Heap_sort_drain(c, h, <<>>)

\* Heap.sort: `finally` puts the copy taken before the drain back, whether
\* the drain finished or raised; the exception then propagates.
Heap_sort(c, h) ==
    LET original_arr == h
        r == Heap_sort_drain(c, h, <<>>)
    IN  IF r.err # "none" THEN Raise(original_arr, r.err)
        ELSE Return(original_arr, r.ret)

\* Heap.peek
Heap_peek(h) ==
    IF Heap_is_empty(h) THEN Raise(h, "IndexError")
    ELSE Return(h, <<h[1]>>)

\* Heap.traverse
Heap_traverse(h) == h

\* Heap.traverse, the list object returned: list(self._heap), a new list.
Heap_traverse_list(h) == NewList(Heap_traverse(h))

\* Heap.clear
Heap_clear(h) == <<>>

\* ----------------------------------------------------------------- HashMap
\* The default of HashMap.__init__(capacity)
DefaultCapacity == 8
\* The capacities a client constructs a map with.
Capacities == {3, DefaultCapacity}
\* Keys and values handed to the map: 0, 8 and 16 collide for capacity 8.
Keys == {-1, 0, 1, 8, 16}

\* Python's hash() of a small int: the int itself, except hash(-1) == -2.
PyHash(key) == IF key = -1 THEN -2 ELSE key

\* HashMap.__init__
EmptyHashMap(capacity) ==
    [capacity |-> capacity, length |-> 0,
     buckets |-> [b \in 1 .. capacity |-> <<>>]]

\* HashMap._hash   (the result is non-negative: % takes the divisor's sign)
HM_hash(m, key) == PyHash(key) % m.capacity

\* for i, (k, v) in enumerate(bucket): if k == key: <found at i>
\* The position (from 1) of the first pair with this key, 0 when there is none.
RECURSIVE HM_scan(_, _, _)
HM_scan(bucket, i, key) ==
    IF i > Len(bucket) THEN 0
    ELSE IF bucket[i][1] = key THEN i
    ELSE HM_scan(bucket, i + 1, key)

\* `del bucket[0]` whatever the position of the key: the oldest pair goes.
HM_del_oldest(bucket, i) == Tail(bucket)

\* del bucket[i]
HM_del(bucket, i) ==
    SubSeq(bucket, 1, i - 1) \o SubSeq(bucket, i + 1, Len(bucket))

\* HashMap.put overwriting the first pair of the bucket when the key exists:
\* `bucket[0] = (key, value)`.
HM_put_overwrites_first(m, key, value) ==
    LET index == HM_hash(m, key)
        bucket == m.buckets[index + 1]
        i == HM_scan(bucket, 1, key)
    IN  IF i # 0
        THEN [m EXCEPT !.buckets[index + 1][1] = <<key, value>>]
        ELSE [m EXCEPT !.buckets[index + 1] = Append(bucket, <<key, value>>),
                       !.length = @ + 1]

\* HashMap.put
HM_put(m, key, value) ==
    LET index == HM_hash(m, key)
        bucket == m.buckets[index + 1]
        i == HM_scan(bucket, 1, key)
    IN  IF i # 0
        THEN [m EXCEPT !.buckets[index + 1][i] = <<key, value>>]
        ELSE [m EXCEPT !.buckets[index + 1] = Append(bucket, <<key, value>>),
                       !.length = @ + 1]

\* HashMap.remove without `self._length -= 1`.
HM_remove_keeps_length(m, key) ==
    LET index == HM_hash(m, key)
        bucket == m.buckets[index + 1]
        i == HM_scan(bucket, 1, key)
    IN  IF i # 0
        THEN Return([m EXCEPT !.buckets[index + 1] = HM_del(bucket, i)], <<TRUE>>)
        ELSE Return(m, <<FALSE>>)

\* HashMap.remove
HM_remove(m, key) ==
    LET index == HM_hash(m, key)
        bucket == m.buckets[index + 1]
        i == HM_scan(bucket, 1, key)
    IN  IF i # 0
        THEN Return([m EXCEPT !.buckets[index + 1] = HM_del(bucket, i),
                              !.length = @ - 1], <<TRUE>>)
        ELSE Return(m, <<FALSE>>)

\* HashMap.clear without `self._length = 0`.
HM_clear_keeps_length(m) ==
    [m EXCEPT !.buckets = [b \in 1 .. m.capacity |-> <<>>]]

\* HashMap.clear
HM_clear(m) ==
    [m EXCEPT !.buckets = [b \in 1 .. m.capacity |-> <<>>], !.length = 0]

\* HashMap.get   (<<>> is None)
HM_get(m, key) ==
    LET index == HM_hash(m, key)
        bucket == m.buckets[index + 1]
        i == HM_scan(bucket, 1, key)
    IN  IF i # 0 THEN <<bucket[i][2]>> ELSE <<>>

\* HashMap.contains
HM_contains(m, key) ==
    LET index == HM_hash(m, key)
        bucket == m.buckets[index + 1]
    IN  HM_scan(bucket, 1, key) # 0

\* HashMap.keys, from bucket b on
RECURSIVE HM_keys_from(_, _)
HM_keys_from(m, b) ==
    IF b > m.capacity THEN <<>>
    ELSE [i \in 1 .. Len(m.buckets[b]) |-> m.buckets[b][i][1]] \o HM_keys_from(m, b + 1)

\* HashMap.keys
HM_keys(m) == HM_keys_from(m, 1)

\* HashMap.__len__
HM_len(m) == m.length

\* HashMap.is_empty
HM_is_empty(m) == m.length = 0

\* ------------------------------------------------------------------- trees
\* The values a client inserts (those of tests/test_binary_tree.py).
TreeValues == {20, 30, 40, 50, 60, 70, 80}
\* The node objects of a tree.
TreeNodes == 1 .. MaxTree

\* BinarySearchTree.__init__ / BinaryTree.__init__: _root = None
EmptyTree ==
    [root  |-> NULL,
     value |-> [n \in TreeNodes |-> 0],
     left  |-> [n \in TreeNodes |-> NULL],
     right |-> [n \in TreeNodes |-> NULL]]

\* The nodes reachable from node n, the node before its subtrees, the left
\* subtree before the right one.
RECURSIVE Tree_nodes(_, _)
Tree_nodes(t, n) ==
    IF n = NULL THEN <<>>
    ELSE <<n>> \o Tree_nodes(t, t.left[n]) \o Tree_nodes(t, t.right[n])

\* Garbage collection: the nodes reachable from _root are kept and numbered
\* in the order of Tree_nodes (an object's address is not observable), the
\* others are freed.
Tree_collect(t) ==
    LET order == Tree_nodes(t, t.root)
        new(n) == IF n = NULL THEN NULL
                  ELSE CHOOSE i \in 1 .. Len(order) : order[i] = n
    IN  [root  |-> new(t.root),
         value |-> [i \in TreeNodes |->
                      IF i <= Len(order) THEN t.value[order[i]] ELSE 0],
         left  |-> [i \in TreeNodes |->
                      IF i <= Len(order) THEN new(t.left[order[i]]) ELSE NULL],
         right |-> [i \in TreeNodes |->
                      IF i <= Len(order) THEN new(t.right[order[i]]) ELSE NULL]]

\* A node object not in use.
Tree_new(t) ==
    LET used == Tree_nodes(t, t.root)
    IN  CHOOSE n \in TreeNodes : \A i \in 1 .. Len(used) : used[i] # n

\* Node(value) / TreeNode(data): the fields of the new node n
Tree_Node(t, n, value) ==
    [t EXCEPT !.value[n] = value, !.left[n] = NULL, !.right[n] = NULL]

\* BinarySearchTree._insert_recursive
RECURSIVE BST_insert_recursive(_, _, _)
BST_insert_recursive(t, node, value) ==
    IF value < t.value[node]
    THEN IF t.left[node] = NULL
         THEN LET n == Tree_new(t)
              IN  [Tree_Node(t, n, value) EXCEPT !.left[node] = n]
         ELSE BST_insert_recursive(t, t.left[node], value)
    ELSE IF value > t.value[node]
    THEN IF t.right[node] = NULL
         THEN LET n == Tree_new(t)
              IN  [Tree_Node(t, n, value) EXCEPT !.right[node] = n]
         ELSE BST_insert_recursive(t, t.right[node], value)
    ELSE t

\* BinarySearchTree.insert hanging the value under a root without a left
\* child before any comparison.
BST_insert_no_compare(t, value) ==
    IF t.root = NULL
    THEN LET n == Tree_new(t)
         IN  [Tree_Node(t, n, value) EXCEPT !.root = n]
    ELSE IF t.left[t.root] = NULL
    THEN LET n == Tree_new(t)
         IN  [Tree_Node(t, n, value) EXCEPT !.left[t.root] = n]
    ELSE BST_insert_recursive(t, t.root, value)

\* BinarySearchTree.insert
BST_insert(t, value) ==
    IF t.root = NULL
    THEN LET n == Tree_new(t)
         IN  [Tree_Node(t, n, value) EXCEPT !.root = n]
    ELSE BST_insert_recursive(t, t.root, value)

\* BinarySearchTree.clear
BST_clear(t) == [t EXCEPT !.root = NULL]

\* BinarySearchTree.is_empty (a property)
BST_is_empty(t) == t.root = NULL

\* BinarySearchTree._size
RECURSIVE BST_size(_, _)
BST_size(t, node) ==
    IF node = NULL THEN 0
    ELSE 1 + BST_size(t, t.left[node]) + BST_size(t, t.right[node])

\* BinarySearchTree.__len__
BST_len(t) == BST_size(t, t.root)

\* max(a, b)
Max(a, b) == IF a >= b THEN a ELSE b

\* BinarySearchTree._height
RECURSIVE BST_height_of(_, _)
BST_height_of(t, node) ==
    IF node = NULL THEN 0
    ELSE 1 + Max(BST_height_of(t, t.left[node]), BST_height_of(t, t.right[node]))

\* BinarySearchTree.height
BST_height(t) == BST_height_of(t, t.root)

\* A search that descends to the left child whatever the comparison says.
RECURSIVE BST_search_left_only(_, _, _)
BST_search_left_only(t, current, value) ==
    IF current = NULL THEN FALSE
    ELSE IF value = t.value[current] THEN TRUE
    ELSE BST_search_left_only(t, t.left[current], value)

\* BinarySearchTree.search, the loop from the node current
RECURSIVE BST_search_from(_, _, _)
BST_search_from(t, current, value) ==
    IF current = NULL THEN FALSE
    ELSE IF value = t.value[current] THEN TRUE
    ELSE BST_search_from(t, IF value < t.value[current]
                            THEN t.left[current] ELSE t.right[current], value)

\* BinarySearchTree.search
BST_search(t, value) == BST_search_from(t, t.root, value)

\* `stack.is_empty` as binary_search_tree.py reads it, without calling it:
\* Stack.is_empty is a method, and a bound method object is true.
Stack_is_empty_attr(items) == TRUE

\* BinarySearchTree.__iter__, the loop `while current: stack.push(current);
\* current = current.left`, which ends with current = None
RECURSIVE BST_push_left(_, _, _)
BST_push_left(t, stack, current) ==
    IF current = NULL THEN stack
    ELSE BST_push_left(t, Stack_push(stack, current), t.left[current])

\* BinarySearchTree.__iter__, the loop
\* `while current or not stack.is_empty`, collecting the values yielded
RECURSIVE BST_iter_from(_, _, _, _)
BST_iter_from(t, stack, current, result) ==
    IF current # NULL \/ ~Stack_is_empty_attr(stack)
    THEN LET r == Stack_pop(BST_push_left(t, stack, current))
         IN  IF r.err # "none" THEN Raise(t, r.err)
             ELSE BST_iter_from(t, r.st, t.right[r.ret[1]],
                                Append(result, t.value[r.ret[1]]))
    ELSE Return(t, <<result>>)

\* list(BinarySearchTree.__iter__())
BST_iter(t) == BST_iter_from(t, EmptyStack, t.root, <<>>)

\* BinarySearchTree.inorder
BST_inorder(t) == BST_iter(t)

\* BinaryTree._insert_recursive with `else` for `elif data > root.data`: a
\* value equal to the node's goes to the right.
RECURSIVE BT_insert_recursive_dups(_, _, _)
BT_insert_recursive_dups(t, root, data) ==
    IF data < t.value[root]
    THEN IF t.left[root] = NULL
         THEN LET n == Tree_new(t)
              IN  [Tree_Node(t, n, data) EXCEPT !.left[root] = n]
         ELSE BT_insert_recursive_dups(t, t.left[root], data)
    ELSE IF t.right[root] = NULL
         THEN LET n == Tree_new(t)
              IN  [Tree_Node(t, n, data) EXCEPT !.right[root] = n]
         ELSE BT_insert_recursive_dups(t, t.right[root], data)

\* BinaryTree._insert_recursive
RECURSIVE BT_insert_recursive(_, _, _)
BT_insert_recursive(t, root, data) ==
    IF data < t.value[root]
    THEN IF t.left[root] = NULL
         THEN LET n == Tree_new(t)
              IN  [Tree_Node(t, n, data) EXCEPT !.left[root] = n]
         ELSE BT_insert_recursive(t, t.left[root], data)
    ELSE IF data > t.value[root]
    THEN IF t.right[root] = NULL
         THEN LET n == Tree_new(t)
              IN  [Tree_Node(t, n, data) EXCEPT !.right[root] = n]
         ELSE BT_insert_recursive(t, t.right[root], data)
    ELSE t

\* BinaryTree.insert
BT_insert(t, data) ==
    IF t.root = NULL
    THEN LET n == Tree_new(t)
         IN  [Tree_Node(t, n, data) EXCEPT !.root = n]
    ELSE BT_insert_recursive(t, t.root, data)

\* BinaryTree.is_empty
BT_is_empty(t) == t.root = NULL

\* BinaryTree._size
RECURSIVE BT_size_of(_, _)
BT_size_of(t, root) ==
    IF root = NULL THEN 0
    ELSE 1 + BT_size_of(t, t.left[root]) + BT_size_of(t, t.right[root])

\* BinaryTree.size
BT_size(t) == IF t.root = NULL THEN 0 ELSE BT_size_of(t, t.root)

\* BinaryTree._height
RECURSIVE BT_height_of(_, _)
BT_height_of(t, root) ==
    IF root = NULL THEN 0
    ELSE 1 + Max(BT_height_of(t, t.left[root]), BT_height_of(t, t.right[root]))

\* BinaryTree.height
BT_height(t) == IF t.root = NULL THEN 0 ELSE BT_height_of(t, t.root)

\* BinaryTree.search, the loop from the node root
RECURSIVE BT_search_from(_, _, _)
BT_search_from(t, root, data) ==
    IF root = NULL THEN FALSE
    ELSE IF data = t.value[root] THEN TRUE
    ELSE IF data < t.value[root] THEN BT_search_from(t, t.left[root], data)
    ELSE BT_search_from(t, t.right[root], data)

\* BinaryTree.search
BT_search(t, data) == BT_search_from(t, t.root, data)

\* BinaryTree.inorder_iterative, the loop `while root: stack.push(root);
\* root = root.left`
RECURSIVE BT_push_left(_, _, _)
BT_push_left(t, stack, root) ==
    IF root = NULL THEN stack
    ELSE BT_push_left(t, Stack_push(stack, root), t.left[root])

\* BinaryTree.inorder_iterative, the loop `while root or not stack.is_empty()`;
\* the traversals of BinaryTree return their result with the stack or queue
\* they end with
RECURSIVE BT_inorder_from(_, _, _, _)
BT_inorder_from(t, stack, root, result) ==
    IF root # NULL \/ ~Stack_is_empty(stack)
    THEN LET r == Stack_pop(BT_push_left(t, stack, root))
         IN  IF r.err # "none" THEN Raise(t, r.err)
             ELSE BT_inorder_from(t, r.st, t.right[r.ret[1]],
                                  Append(result, t.value[r.ret[1]]))
    ELSE Return(stack, <<result>>)

\* BinaryTree.inorder_iterative
BT_inorder_iterative(t) == BT_inorder_from(t, EmptyStack, t.root, <<>>)

\* A preorder loop that pushes the left child before the right one, so that
\* the right subtree is visited first.
RECURSIVE BT_preorder_loop_left_first(_, _, _)
BT_preorder_loop_left_first(t, stack, result) ==
    IF ~Stack_is_empty(stack)
    THEN LET r == Stack_pop(stack)
             tree_node == r.ret[1]
             s1 == IF t.left[tree_node] # NULL
                   THEN Stack_push(r.st, t.left[tree_node]) ELSE r.st
             s2 == IF t.right[tree_node] # NULL
                   THEN Stack_push(s1, t.right[tree_node]) ELSE s1
         IN  BT_preorder_loop_left_first(t, s2, Append(result, t.value[tree_node]))
    ELSE Return(stack, <<result>>)

\* BinaryTree.preorder_iterative, the loop `while not stack.is_empty()`
RECURSIVE BT_preorder_loop(_, _, _)
BT_preorder_loop(t, stack, result) ==
    IF ~Stack_is_empty(stack)
    THEN LET r == Stack_pop(stack)
             tree_node == r.ret[1]
             s1 == IF t.right[tree_node] # NULL
                   THEN Stack_push(r.st, t.right[tree_node]) ELSE r.st
             s2 == IF t.left[tree_node] # NULL
                   THEN Stack_push(s1, t.left[tree_node]) ELSE s1
         IN  IF r.err # "none" THEN Raise(stack, r.err)
             ELSE BT_preorder_loop(t, s2, Append(result, t.value[tree_node]))
    ELSE Return(stack, <<result>>)

\* BinaryTree.preorder_iterative
BT_preorder_iterative(t) ==
    IF t.root = NULL THEN Return(EmptyStack, <<(<<>>)>>)
    ELSE BT_preorder_loop(t, Stack_push(EmptyStack, t.root), <<>>)

\* BinaryTree.postorder_iterative, the loop
\* `while root or not stack.is_empty()`
RECURSIVE BT_postorder_loop(_, _, _, _, _)
BT_postorder_loop(t, stack, root, last_visited, result) ==
    IF root # NULL \/ ~Stack_is_empty(stack)
    THEN LET pushed == BT_push_left(t, stack, root)
             p == Stack_peek(pushed)
             top == p.ret[1]
         IN  IF p.err # "none" THEN Raise(pushed, p.err)
             ELSE IF t.right[top] = NULL \/ last_visited = t.right[top]
             THEN BT_postorder_loop(t, Stack_pop(pushed).st, NULL, top,
                                    Append(result, t.value[top]))
             ELSE BT_postorder_loop(t, pushed, t.right[top], last_visited, result)
    ELSE Return(stack, <<result>>)

\* BinaryTree.postorder_iterative
BT_postorder_iterative(t) == BT_postorder_loop(t, EmptyStack, t.root, NULL, <<>>)

\* BinaryTree.level_order, the loop `while not queue.is_empty()`
RECURSIVE BT_level_order_loop(_, _, _)
BT_level_order_loop(t, queue, result) ==
    IF ~Queue_is_empty(queue)
    THEN LET r == Queue_dequeue(queue)
             tree_node == r.ret[1]
             q1 == IF t.left[tree_node] # NULL
                   THEN Queue_enqueue(r.st, t.left[tree_node]) ELSE r.st
             q2 == IF t.right[tree_node] # NULL
                   THEN Queue_enqueue(q1, t.right[tree_node]) ELSE q1
         IN  IF r.err # "none" THEN Raise(queue, r.err)
             ELSE BT_level_order_loop(t, q2, Append(result, t.value[tree_node]))
    ELSE Return(queue, <<result>>)

\* BinaryTree.level_order
BT_level_order(t) ==
    IF t.root = NULL THEN Return(EmptyQueue, <<(<<>>)>>)
    ELSE BT_level_order_loop(t, Queue_enqueue(EmptyQueue, t.root), <<>>)

\* `queue.is_empty` as binary_search_tree.py reads it, without calling it:
\* Queue.is_empty is a method, and a bound method object is true.
Queue_is_empty_attr(items) == TRUE

\* BinarySearchTree.preorder, the loop `while not stack.is_empty`
RECURSIVE BST_preorder_loop(_, _, _)
BST_preorder_loop(t, stack, result) ==
    IF ~Stack_is_empty_attr(stack)
    THEN LET r == Stack_pop(stack)
             node == r.ret[1]
             s1 == IF t.right[node] # NULL
                   THEN Stack_push(r.st, t.right[node]) ELSE r.st
             s2 == IF t.left[node] # NULL
                   THEN Stack_push(s1, t.left[node]) ELSE s1
         IN  IF r.err # "none" THEN Raise(stack, r.err)
             ELSE BST_preorder_loop(t, s2, Append(result, t.value[node]))
    ELSE Return(stack, <<result>>)

\* BinarySearchTree.preorder
BST_preorder(t) ==
    IF t.root = NULL THEN Return(EmptyStack, <<(<<>>)>>)
    ELSE BST_preorder_loop(t, Stack_push(EmptyStack, t.root), <<>>)

\* BinarySearchTree.postorder, the loop
\* `while current or not stack.is_empty`
RECURSIVE BST_postorder_loop(_, _, _, _, _)
BST_postorder_loop(t, stack, current, last_visited, result) ==
    IF current # NULL \/ ~Stack_is_empty_attr(stack)
    THEN LET pushed == BST_push_left(t, stack, current)
             p == Stack_peek(pushed)
             peek_node == p.ret[1]
         IN  IF p.err # "none" THEN Raise(pushed, p.err)
             ELSE IF t.right[peek_node] = NULL \/ last_visited = t.right[peek_node]
             THEN BST_postorder_loop(t, Stack_pop(pushed).st, NULL, peek_node,
                                     Append(result, t.value[peek_node]))
             ELSE BST_postorder_loop(t, pushed, t.right[peek_node],
                                     last_visited, result)
    ELSE Return(stack, <<result>>)

\* BinarySearchTree.postorder
BST_postorder(t) == BST_postorder_loop(t, EmptyStack, t.root, NULL, <<>>)

\* BinarySearchTree.bfs, the loop `while not queue.is_empty`
RECURSIVE BST_bfs_loop(_, _, _)
BST_bfs_loop(t, queue, result) ==
    IF ~Queue_is_empty_attr(queue)
    THEN LET r == Queue_dequeue(queue)
             node == r.ret[1]
             q1 == IF t.left[node] # NULL
                   THEN Queue_enqueue(r.st, t.left[node]) ELSE r.st
             q2 == IF t.right[node] # NULL
                   THEN Queue_enqueue(q1, t.right[node]) ELSE q1
         IN  IF r.err # "none" THEN Raise(queue, r.err)
             ELSE BST_bfs_loop(t, q2, Append(result, t.value[node]))
    ELSE Return(queue, <<result>>)

\* BinarySearchTree.bfs
BST_bfs(t) ==
    IF t.root = NULL THEN Return(EmptyQueue, <<(<<>>)>>)
    ELSE BST_bfs_loop(t, Queue_enqueue(EmptyQueue, t.root), <<>>)

\* The two tree classes.
TreeClasses == {"BinarySearchTree", "BinaryTree"}

\* ------------------------------------------------------------------ graphs
\* NODES and EDGES of tests/test_graph.py, and the values that the other
\* clients of a graph use.
NODES == {1, 2, 3, 4}
EDGES == {<<1, 2>>, <<2, 3>>, <<1, 4>>}
GraphValues == {1, 2, 3}

\* The Node objects: <<value, k>> is the k-th Node that holds value among
\* those still referenced.  Node.value is never assigned after __init__.
GraphObjects == NODES \X {0, 1, 2}

\* Graph.__init__: _adj_list maps the values present to their Node, and
\* neighbors is the neighbors set of every Node object.
EmptyGraph ==
    [adj_list |-> [v \in {} |-> <<0, 0>>],
     neighbors |-> [o \in GraphObjects |-> {}]]

\* A values() that yields the Node of the lowest value only.
Graph_values_first(g) ==
    {g.adj_list[v] : v \in {w \in DOMAIN g.adj_list :
                               \A x \in DOMAIN g.adj_list : w <= x}}

\* self._adj_list.values()
Graph_values(g) == {g.adj_list[v] : v \in DOMAIN g.adj_list}

\* The Node objects the graph still references, directly or through the
\* neighbors sets of Nodes it references; the others are reclaimed.
RECURSIVE Graph_reach(_, _)
Graph_reach(g, S) ==
    LET T == S \cup UNION {g.neighbors[o] : o \in S}
    IN  IF T = S THEN S ELSE Graph_reach(g, T)

Graph_live(g) == Graph_reach(g, Graph_values(g))

Graph_collect(g) ==
    LET live == Graph_live(g)
    IN  [g EXCEPT !.neighbors =
            [o \in GraphObjects |-> IF o \in live THEN g.neighbors[o] ELSE {}]]

\* Node(value): a new object, with no neighbors.
Graph_Node(g, value) ==
    LET live == Graph_live(g)
        free == {k \in {0, 1, 2} : <<value, k>> \notin live}
    IN  <<value, CHOOSE k \in free : \A j \in free : k <= j>>

\* Graph.size
Graph_size(g) == Cardinality(DOMAIN g.adj_list)

\* Graph.is_empty
Graph_is_empty(g) == Cardinality(DOMAIN g.adj_list) = 0

\* An add_node that stores a new Node whether or not the value is present.
Graph_add_node_replaces(g, value) ==
    LET node == Graph_Node(g, value)
    IN  [adj_list |-> [v \in DOMAIN g.adj_list \cup {value} |->
                          IF v = value THEN node ELSE g.adj_list[v]],
         neighbors |-> [g.neighbors EXCEPT ![node] = {}]]

\* Graph.add_node
Graph_add_node(g, value) ==
    IF value \notin DOMAIN g.adj_list
    THEN LET node == Graph_Node(g, value)
         IN  [adj_list |-> [v \in DOMAIN g.adj_list \cup {value} |->
                               IF v = value THEN node ELSE g.adj_list[v]],
              neighbors |-> [g.neighbors EXCEPT ![node] = {}]]
    ELSE g

\* An add_edge that adds val1 -> val2 only, whatever `directed` is.
Graph_add_edge_one_way(g, val1, val2, directed) ==
    LET g1 == Graph_add_node(Graph_add_node(g, val1), val2)
    IN  [g1 EXCEPT !.neighbors[g1.adj_list[val1]] = @ \cup {g1.adj_list[val2]}]

\* Graph.add_edge
Graph_add_edge(g, val1, val2, directed) ==
    LET g1 == Graph_add_node(Graph_add_node(g, val1), val2)
        node1 == g1.adj_list[val1]
        node2 == g1.adj_list[val2]
        g2 == [g1 EXCEPT !.neighbors[node1] = @ \cup {node2}]
    IN  IF ~directed THEN [g2 EXCEPT !.neighbors[node2] = @ \cup {node1}]
        ELSE g2

\* A remove_node that deletes the entry of _adj_list and leaves the
\* neighbors sets as they are.
Graph_remove_node_keeps_edges(g, value) ==
    IF value \notin DOMAIN g.adj_list THEN g
    ELSE [g EXCEPT !.adj_list = [v \in DOMAIN g.adj_list \ {value} |-> g.adj_list[v]]]

\* Graph.remove_node
Graph_remove_node(g, value) ==
    IF value \notin DOMAIN g.adj_list THEN g
    ELSE LET target_node == g.adj_list[value]
         IN  [adj_list |-> [v \in DOMAIN g.adj_list \ {value} |-> g.adj_list[v]],
              neighbors |-> [o \in GraphObjects |->
                                IF o \in Graph_values(g)
                                THEN g.neighbors[o] \ {target_node}
                                ELSE g.neighbors[o]]]

\* A remove_edge that removes both directions, whatever `directed` is.
Graph_remove_edge_both(g, val1, val2, directed) ==
    IF val1 \notin DOMAIN g.adj_list \/ val2 \notin DOMAIN g.adj_list THEN g
    ELSE [g EXCEPT !.neighbors[g.adj_list[val1]] = @ \ {g.adj_list[val2]},
                   !.neighbors[g.adj_list[val2]] = @ \ {g.adj_list[val1]}]

\* Graph.remove_edge
Graph_remove_edge(g, val1, val2, directed) ==
    IF val1 \notin DOMAIN g.adj_list \/ val2 \notin DOMAIN g.adj_list THEN g
    ELSE LET node1 == g.adj_list[val1]
             node2 == g.adj_list[val2]
             g1 == [g EXCEPT !.neighbors[node1] = @ \ {node2}]
         IN  IF ~directed THEN [g1 EXCEPT !.neighbors[node2] = @ \ {node1}]
             ELSE g1

\* The orders in which a run may iterate over a set of Nodes: Python leaves
\* the iteration order of a set unspecified.  An order gives every value of
\* V the place at which its Nodes come, Nodes of one value by their number.
Orders(V) ==
    {order \in [V -> 1 .. Cardinality(V)] :
        \A v, w \in V : v # w => order[v] # order[w]}

\* `for x in S` / list(S) for a set S of Nodes, iterated in the given order.
RECURSIVE Iterate(_, _)
Iterate(S, order) ==
    IF S = {} THEN <<>>
    ELSE LET first == CHOOSE x \in S : \A y \in S :
                         \/ order[x[1]] < order[y[1]]
                         \/ x[1] = y[1] /\ x[2] <= y[2]
         IN  <<first>> \o Iterate(S \ {first}, order)

\* The Nodes in the order the iteration gave them, not sorted.
unsorted(nodes, reverse) == nodes

\* sorted(nodes, key=lambda x: x.value, reverse=reverse): a stable sort, the
\* Nodes of equal value stay in the order they came in.
RECURSIVE sorted(_, _)
sorted(nodes, reverse) ==
    IF nodes = <<>> THEN <<>>
    ELSE LET x == Head(nodes)
             rest == sorted(Tail(nodes), reverse)
             n == Cardinality({i \in DOMAIN rest :
                                  IF reverse THEN rest[i][1] > x[1]
                                  ELSE rest[i][1] < x[1]})
         IN  SubSeq(rest, 1, n) \o <<x>> \o SubSeq(rest, n + 1, Len(rest))

\* Graph.get_neighbors
Graph_get_neighbors(g, value, order) ==
    IF value \notin DOMAIN g.adj_list THEN <<>>
    ELSE LET nodes == Iterate(g.neighbors[g.adj_list[value]], order)
         IN  [i \in DOMAIN nodes |-> nodes[i][1]]

\* A has_edge that looks for the edge in either direction.
Graph_has_edge_either(g, val1, val2) ==
    IF val1 \notin DOMAIN g.adj_list \/ val2 \notin DOMAIN g.adj_list THEN FALSE
    ELSE \/ g.adj_list[val2] \in g.neighbors[g.adj_list[val1]]
         \/ g.adj_list[val1] \in g.neighbors[g.adj_list[val2]]

\* Graph.has_edge
Graph_has_edge(g, val1, val2) ==
    IF val1 \notin DOMAIN g.adj_list \/ val2 \notin DOMAIN g.adj_list THEN FALSE
    ELSE g.adj_list[val2] \in g.neighbors[g.adj_list[val1]]

\* Graph.bfs, `for neighbor in sorted(...): if neighbor.value not in seen:
\* seen.add(neighbor.value); queue.enqueue(neighbor)`
RECURSIVE Graph_bfs_neighbors(_, _, _)
Graph_bfs_neighbors(nodes, seen, queue) ==
    IF nodes = <<>> THEN [seen |-> seen, queue |-> queue]
    ELSE LET neighbor == Head(nodes)
         IN  IF neighbor[1] \notin seen
             THEN Graph_bfs_neighbors(Tail(nodes), seen \cup {neighbor[1]},
                                      Queue_enqueue(queue, neighbor))
             ELSE Graph_bfs_neighbors(Tail(nodes), seen, queue)

\* Graph.bfs, the loop `while not queue.is_empty()`
RECURSIVE Graph_bfs_loop(_, _, _, _, _)
Graph_bfs_loop(g, queue, seen, result, order) ==
    IF ~Queue_is_empty(queue)
    THEN LET r == Queue_dequeue(queue)
             curr_node == r.ret[1]
             n == Graph_bfs_neighbors(
                      sorted(Iterate(g.neighbors[curr_node], order), FALSE),
                      seen, r.st)
         IN  IF r.err # "none" THEN Raise(queue, r.err)
             ELSE Graph_bfs_loop(g, n.queue, n.seen,
                                 Append(result, curr_node[1]), order)
    ELSE Return(queue, <<result>>)

\* A bfs that starts at start_value whether or not it is a node.
Graph_bfs_unchecked(g, start_value, order) ==
    IF start_value \notin DOMAIN g.adj_list
    THEN Return(EmptyQueue, <<(<<start_value>>)>>)
    ELSE Graph_bfs_loop(g, Queue_enqueue(EmptyQueue, g.adj_list[start_value]),
                        {start_value}, <<>>, order)

\* Graph.bfs
Graph_bfs(g, start_value, order) ==
    IF start_value \notin DOMAIN g.adj_list THEN Return(EmptyQueue, <<(<<>>)>>)
    ELSE Graph_bfs_loop(g, Queue_enqueue(EmptyQueue, g.adj_list[start_value]),
                        {start_value}, <<>>, order)

\* A loop that pushes the last of the neighbors only.
Graph_dfs_neighbors_last_only(nodes, seen, stack) ==
    IF nodes = <<>> THEN stack
    ELSE IF nodes[Len(nodes)][1] \notin seen
    THEN Stack_push(stack, nodes[Len(nodes)])
    ELSE stack

\* Graph.dfs, `for neighbor in sorted(..., reverse=True):
\* if neighbor.value not in seen: stack.push(neighbor)`
RECURSIVE Graph_dfs_neighbors(_, _, _)
Graph_dfs_neighbors(nodes, seen, stack) ==
    IF nodes = <<>> THEN stack
    ELSE LET neighbor == Head(nodes)
         IN  Graph_dfs_neighbors(Tail(nodes), seen,
                                 IF neighbor[1] \notin seen
                                 THEN Stack_push(stack, neighbor) ELSE stack)

\* Graph.dfs, the loop `while not stack.is_empty()`
RECURSIVE Graph_dfs_loop(_, _, _, _, _)
Graph_dfs_loop(g, stack, seen, result, order) ==
    IF ~Stack_is_empty(stack)
    THEN LET r == Stack_pop(stack)
             curr_node == r.ret[1]
         IN  IF r.err # "none" THEN Raise(stack, r.err)
             ELSE IF curr_node[1] \notin seen
             THEN Graph_dfs_loop(
                      g,
                      Graph_dfs_neighbors(
                          sorted(Iterate(g.neighbors[curr_node], order), TRUE),
                          seen \cup {curr_node[1]}, r.st),
                      seen \cup {curr_node[1]},
                      Append(result, curr_node[1]), order)
             ELSE Graph_dfs_loop(g, r.st, seen, result, order)
    ELSE Return(stack, <<result>>)

\* Graph.dfs
Graph_dfs(g, start_value, order) ==
    IF start_value \notin DOMAIN g.adj_list THEN Return(EmptyStack, <<(<<>>)>>)
    ELSE Graph_dfs_loop(g, Stack_push(EmptyStack, g.adj_list[start_value]),
                        {}, <<>>, order)

\* -------------------------------------------------------------- sorting.py
\* The lists the client sorts: integers, negative ones and duplicates
\* included, and the non-negative ones counting_sort is for.
SortValues == {-1, 0, 1, 2}
SortInputs == UNION {[1 .. n -> SortValues] : n \in 0 .. MaxInput}
CountingInputs ==
    UNION {[1 .. n -> {v \in SortValues : v >= 0}] : n \in 0 .. MaxInput}

\* bubble_sort, the loop `for j in range(1, n - i)`: the list and `swapped`
RECURSIVE bubble_sort_pass(_, _, _, _)
bubble_sort_pass(arr, j, stop, swapped) ==
    IF j >= stop THEN [arr |-> arr, swapped |-> swapped]
    ELSE IF arr[j + 1] < arr[(j - 1) + 1]
    THEN bubble_sort_pass(Heap_swap(arr, j, j - 1), j + 1, stop, TRUE)
    ELSE bubble_sort_pass(arr, j + 1, stop, swapped)

\* bubble_sort, the loop `for i in range(n)` with its break
RECURSIVE bubble_sort_loop(_, _, _)
bubble_sort_loop(arr, n, i) ==
    IF i >= n THEN arr
    ELSE LET pass == bubble_sort_pass(arr, 1, n - i, FALSE)
         IN  IF ~pass.swapped THEN pass.arr
             ELSE bubble_sort_loop(pass.arr, n, i + 1)

\* bubble_sort: the list as the call leaves it
bubble_sort(arr) == bubble_sort_loop(arr, Len(arr), 0)

\* insertion_sort, the loop `for j in range(i, 0, -1)` with its break
RECURSIVE insertion_sort_sink(_, _)
insertion_sort_sink(arr, j) ==
    IF j <= 0 THEN arr
    ELSE IF arr[j + 1] < arr[(j - 1) + 1]
    THEN insertion_sort_sink(Heap_swap(arr, j, j - 1), j - 1)
    ELSE arr

\* insertion_sort, the loop `for i in range(1, n)`
RECURSIVE insertion_sort_loop(_, _, _)
insertion_sort_loop(arr, n, i) ==
    IF i >= n THEN arr
    ELSE insertion_sort_loop(insertion_sort_sink(arr, i), n, i + 1)

\* insertion_sort: the list as the call leaves it
insertion_sort(arr) == insertion_sort_loop(arr, Len(arr), 1)

\* selection_sort, the loop `for j in range(i + 1, n)`: min_index
RECURSIVE selection_sort_min(_, _, _, _)
selection_sort_min(arr, n, j, min_index) ==
    IF j >= n THEN min_index
    ELSE selection_sort_min(arr, n, j + 1,
            IF arr[j + 1] < arr[min_index + 1] THEN j ELSE min_index)

\* selection_sort, the loop `for i in range(n)`
RECURSIVE selection_sort_loop(_, _, _)
selection_sort_loop(arr, n, i) ==
    IF i >= n THEN arr
    ELSE selection_sort_loop(
            Heap_swap(arr, i, selection_sort_min(arr, n, i + 1, i)), n, i + 1)

\* selection_sort: the list as the call leaves it
selection_sort(arr) == selection_sort_loop(arr, Len(arr), 0)

\* _merge_sort_helper, its three while loops one after the other: the second
\* and third run once li or ri has reached the end of L or R.
RECURSIVE merge_sort_helper_loops(_, _, _, _, _, _)
merge_sort_helper_loops(arr, L, R, li, ri, curr) ==
    IF li < Len(L) /\ ri < Len(R)
    THEN IF L[li + 1] <= R[ri + 1]
         THEN merge_sort_helper_loops([arr EXCEPT ![curr + 1] = L[li + 1]],
                                      L, R, li + 1, ri, curr + 1)
         ELSE merge_sort_helper_loops([arr EXCEPT ![curr + 1] = R[ri + 1]],
                                      L, R, li, ri + 1, curr + 1)
    ELSE IF li < Len(L)
    THEN merge_sort_helper_loops([arr EXCEPT ![curr + 1] = L[li + 1]],
                                 L, R, li + 1, ri, curr + 1)
    ELSE IF ri < Len(R)
    THEN merge_sort_helper_loops([arr EXCEPT ![curr + 1] = R[ri + 1]],
                                 L, R, li, ri + 1, curr + 1)
    ELSE arr

\* _merge_sort_helper leaving the two halves where they are.
merge_sort_helper_no_merge(arr, left, mid, right) == arr

\* _merge_sort_helper: L = arr[left : mid + 1], R = arr[mid + 1 : right + 1]
merge_sort_helper(arr, left, mid, right) ==
    merge_sort_helper_loops(arr, SubSeq(arr, left + 1, mid + 1),
                            SubSeq(arr, mid + 2, right + 1), 0, 0, left)

\* _merge_sort_partition
RECURSIVE merge_sort_partition(_, _, _)
merge_sort_partition(arr, left, right) ==
    IF left < right
    THEN LET mid == (left + right) \div 2
             lower == merge_sort_partition(arr, left, mid)
             upper == merge_sort_partition(lower, mid + 1, right)
         IN  merge_sort_helper(upper, left, mid, right)
    ELSE arr

\* merge_sort: the list as the call leaves it
merge_sort(arr) ==
    IF Len(arr) <= 1 THEN arr
    ELSE merge_sort_partition(arr, 0, Len(arr) - 1)

\* _quick_sort_partition, the loop `for i in range(left, right)`: the list
\* and j
RECURSIVE quick_sort_partition_loop(_, _, _, _, _)
quick_sort_partition_loop(arr, pivot, i, right, j) ==
    IF i >= right THEN [arr |-> arr, j |-> j]
    ELSE IF arr[i + 1] <= pivot
    THEN quick_sort_partition_loop(Heap_swap(arr, j + 1, i), pivot,
                                   i + 1, right, j + 1)
    ELSE quick_sort_partition_loop(arr, pivot, i + 1, right, j)

\* _quick_sort_partition: the list and the index returned
quick_sort_partition(arr, left, right) ==
    LET r == quick_sort_partition_loop(arr, arr[right + 1], left, right, left - 1)
    IN  Return(Heap_swap(r.arr, r.j + 1, right), <<r.j + 1>>)

\* _quick_sort_helper
RECURSIVE quick_sort_helper(_, _, _)
quick_sort_helper(arr, left, right) ==
    IF left < right
    THEN LET p == quick_sort_partition(arr, left, right)
             pi == p.ret[1]
         IN  quick_sort_helper(quick_sort_helper(p.st, left, pi - 1),
                               pi + 1, right)
    ELSE arr

\* quick_sort: the list as the call leaves it
quick_sort(arr) ==
    IF Len(arr) <= 1 THEN arr
    ELSE quick_sort_helper(arr, 0, Len(arr) - 1)

\* max(arr) of a non-empty list
RECURSIVE max(_)
max(arr) ==
    IF Len(arr) = 1 THEN arr[1]
    ELSE Max(arr[1], max(Tail(arr)))

\* counting_sort, the loop `for x in arr: counts[x] += 1`
RECURSIVE counting_sort_count(_, _, _)
counting_sort_count(arr, k, counts) ==
    IF k > Len(arr) THEN counts
    ELSE counting_sort_count(arr, k + 1, [counts EXCEPT ![arr[k]] = @ + 1])

\* counting_sort, the loop `for val, count in enumerate(counts)` and its
\* `while count > 0`
RECURSIVE counting_sort_write(_, _, _, _, _)
counting_sort_write(arr, counts, val, count, i) ==
    IF count > 0
    THEN counting_sort_write([arr EXCEPT ![i + 1] = val], counts, val,
                             count - 1, i + 1)
    ELSE IF (val + 1) \in DOMAIN counts
    THEN counting_sort_write(arr, counts, val + 1, counts[val + 1], i)
    ELSE arr

\* counting_sort: the list as the call leaves it; counts = [0] * (max_val + 1)
counting_sort(arr) ==
    IF Len(arr) <= 1 THEN arr
    ELSE LET max_val == max(arr)
             counts == counting_sort_count(arr, 1, [v \in 0 .. max_val |-> 0])
         IN  counting_sort_write(arr, counts, 0, counts[0], 0)

\* -------------------------------------------------------- binary_search.py
\* The sorted lists the client searches, and the values it searches for:
\* below, between, among and above the elements.
SearchValues == {1, 3, 5}
SearchInputs ==
    {arr \in UNION {[1 .. n -> SearchValues] : n \in 0 .. MaxLen} :
        \A i \in 1 .. Len(arr) - 1 : arr[i] <= arr[i + 1]}
SearchedFor == 0 .. 6

\* binary_search, up to the loop: left = 0, right = len(arr) - 1.  `read` is
\* the index the last run of the loop body read arr at.
binary_search_enter(arr) ==
    [left |-> 0, right |-> Len(arr) - 1, read |-> <<>>, pc |-> "while",
     ret |-> <<>>, err |-> "none"]

\* binary_search moving left to m where it moves right to m - 1.
binary_search_step_left(arr, val, f) ==
    IF ~(f.left <= f.right)
    THEN [f EXCEPT !.pc = "return", !.ret = <<FALSE>>, !.read = <<>>]
    ELSE LET m == f.left + ((f.right - f.left) \div 2)
         IN  IF val = arr[m + 1]
             THEN [f EXCEPT !.pc = "return", !.ret = <<TRUE>>, !.read = <<m>>]
             ELSE [f EXCEPT !.left = m, !.read = <<m>>]

\* binary_search, one test of `while left <= right` and, when it holds, one
\* run of the loop body.  arr[m] raises IndexError for m >= len(arr) or
\* m < -len(arr), and reads from the end of the list for other negative m.
binary_search_step(arr, val, f) ==
    IF ~(f.left <= f.right)
    THEN [f EXCEPT !.pc = "return", !.ret = <<FALSE>>, !.read = <<>>]
    ELSE LET m == f.left + ((f.right - f.left) \div 2)
             at == IF m < 0 THEN m + Len(arr) ELSE m
         IN  IF at < 0 \/ at >= Len(arr)
             THEN [f EXCEPT !.pc = "raise", !.err = "IndexError", !.read = <<m>>]
             ELSE IF val = arr[at + 1]
             THEN [f EXCEPT !.pc = "return", !.ret = <<TRUE>>, !.read = <<m>>]
             ELSE IF val < arr[at + 1]
             THEN [f EXCEPT !.right = m - 1, !.read = <<m>>]
             ELSE IF val > arr[at + 1]
             THEN [f EXCEPT !.left = m + 1, !.read = <<m>>]
             ELSE [f EXCEPT !.read = <<m>>]

\* ------------------------------------------------------------------- state
VARIABLES
    cls,    \* the class of the container the client constructed
    dll,    \* the DoublyLinkedList (for a Queue: its _items)
    sll,    \* the SinglyLinkedList
    stack,  \* Stack._items
    heap,   \* Heap._heap
    hmap,   \* the HashMap: _capacity, _length, _buckets
    tree,   \* the BinarySearchTree / BinaryTree: _root and the node objects
    graph,  \* the Graph: _adj_list and the neighbors of the Node objects
    hist,   \* the pushes/pops or enqueues/dequeues that succeeded since the
            \* container was constructed or last cleared, oldest first
    last,   \* the last call: method, arguments, return value, exception
    client  \* the list object the client holds: the one traverse() returned
            \* or the one it passed to heapify()

vars == <<cls, dll, sll, stack, heap, hmap, tree, graph, hist, last, client>>

\* A client that owns a SinglyLinkedList and a DoublyLinkedList and makes
\* every call on both.
BothLists == "SinglyLinkedList, DoublyLinkedList"

\* The Stack of src/data_structures/stacks/stack.py, the module the tests
\* import; "Stack" is the Stack of src/src/data_structures/stacks/stack.py.
\* The two classes differ in traverse() only.
TopStack == "data_structures.stacks.stack.Stack"
StackClasses == {"Stack", TopStack}

Classes ==
    {"Stack", TopStack, "Queue", "DoublyLinkedList", "SinglyLinkedList",
     "MaxHeap", "MinHeap", "HashMap", "Graph", BothLists}
       \cup AnyHeap \cup TreeClasses

Called(op, args, ret, err) == [op |-> op, args |-> args, ret |-> ret, err |-> err]

\* A call made on both lists: what the singly linked list answered, and
\* what the doubly linked list answered.
CalledBoth(op, args, s, d) ==
    [op |-> op, args |-> args, ret |-> s.ret, err |-> s.err,
     dll_ret |-> d.ret, dll_err |-> d.err]

\* A call of clear(), with the number of elements the container held.
Cleared(held) ==
    [op |-> "clear", args |-> <<>>, ret |-> <<>>, err |-> "none", held |-> held]

Event(op, val) == [op |-> op, val |-> val]

\* The constructors: the client constructs one container of a class in C,
\* and every container starts empty.
Constructed(C) ==
    /\ cls \in C
    /\ dll = EmptyDLL
    /\ sll = EmptySLL
    /\ stack = EmptyStack
    /\ heap = EmptyHeap
    /\ \E capacity \in (IF cls = "HashMap" THEN Capacities ELSE {DefaultCapacity}) :
          hmap = EmptyHashMap(capacity)
    /\ tree = EmptyTree
    /\ graph = EmptyGraph
    /\ hist = <<>>
    /\ last = Called("__init__", <<>>, <<>>, "none")
    /\ client = NoList

Init == Constructed(Classes)

\* A node can be allocated and the list is below the modelled length.
DLL_room(l) == l.length < MaxLen /\ Nodes \ DLL_live(l) # {}
SLL_room(l) == l.length < MaxLen /\ Nodes \ SLL_live(l) # {}

\* ------------------------------------------------ DoublyLinkedList actions
DLLAppend ==
    /\ cls = "DoublyLinkedList"
    /\ DLL_room(dll)
    /\ \E v \in Values :
          /\ dll' = DLL_collect(DLL_append(dll, v))
          /\ last' = Called("append", <<v>>, <<>>, "none")
    /\ UNCHANGED <<cls, client, graph, sll, stack, heap, hmap, tree, hist>>

DLLPrepend ==
    /\ cls = "DoublyLinkedList"
    /\ DLL_room(dll)
    /\ \E v \in Values :
          /\ dll' = DLL_collect(DLL_prepend(dll, v))
          /\ last' = Called("prepend", <<v>>, <<>>, "none")
    /\ UNCHANGED <<cls, client, graph, sll, stack, heap, hmap, tree, hist>>

DLLInsert ==
    /\ cls = "DoublyLinkedList"
    /\ \E i \in Indices, v \in Values :
          /\ i < 0 \/ i > dll.length \/ DLL_room(dll)
          /\ LET r == DLL_insert(dll, i, v)
             IN  /\ dll' = DLL_collect(r.st)
                 /\ last' = Called("insert", <<i, v>>, r.ret, r.err)
    /\ UNCHANGED <<cls, client, graph, sll, stack, heap, hmap, tree, hist>>

DLLDelete ==
    /\ cls = "DoublyLinkedList"
    /\ \E key \in Values :
          LET r == DLL_delete(dll, key)
          IN  /\ dll' = DLL_collect(r.st)
              /\ last' = Called("delete", <<key>>, r.ret, r.err)
    /\ UNCHANGED <<cls, client, graph, sll, stack, heap, hmap, tree, hist>>

DLLPopFront ==
    /\ cls = "DoublyLinkedList"
    /\ LET r == DLL_pop_front(dll)
       IN  /\ dll' = DLL_collect(r.st)
           /\ last' = Called("pop_front", <<>>, r.ret, r.err)
    /\ UNCHANGED <<cls, client, graph, sll, stack, heap, hmap, tree, hist>>

DLLGet ==
    /\ cls = "DoublyLinkedList"
    /\ \E i \in Indices :
          LET r == DLL_get(dll, i)
          IN  /\ dll' = DLL_collect(r.st)
              /\ last' = Called("get", <<i>>, r.ret, r.err)
    /\ UNCHANGED <<cls, client, graph, sll, stack, heap, hmap, tree, hist>>

DLLPeekFront ==
    /\ cls = "DoublyLinkedList"
    /\ LET r == DLL_peek_front(dll)
       IN  /\ dll' = DLL_collect(r.st)
           /\ last' = Called("peek_front", <<>>, r.ret, r.err)
    /\ UNCHANGED <<cls, client, graph, sll, stack, heap, hmap, tree, hist>>

DLLPeekBack ==
    /\ cls = "DoublyLinkedList"
    /\ LET r == DLL_peek_back(dll)
       IN  /\ dll' = DLL_collect(r.st)
           /\ last' = Called("peek_back", <<>>, r.ret, r.err)
    /\ UNCHANGED <<cls, client, graph, sll, stack, heap, hmap, tree, hist>>

DLLClear ==
    /\ cls = "DoublyLinkedList"
    /\ dll' = DLL_collect(DLL_clear(dll))
    /\ last' = Cleared(DLL_len(dll))
    /\ UNCHANGED <<cls, client, graph, sll, stack, heap, hmap, tree, hist>>

NextDLL ==
    \/ DLLAppend \/ DLLPrepend \/ DLLInsert \/ DLLDelete \/ DLLPopFront
    \/ DLLGet \/ DLLPeekFront \/ DLLPeekBack \/ DLLClear

\* ------------------------------------------------ SinglyLinkedList actions
SLLAppend ==
    /\ cls = "SinglyLinkedList"
    /\ SLL_room(sll)
    /\ \E v \in Values :
          /\ sll' = SLL_collect(SLL_append(sll, v))
          /\ last' = Called("append", <<v>>, <<>>, "none")
    /\ UNCHANGED <<cls, client, graph, dll, stack, heap, hmap, tree, hist>>

SLLPrepend ==
    /\ cls = "SinglyLinkedList"
    /\ SLL_room(sll)
    /\ \E v \in Values :
          /\ sll' = SLL_collect(SLL_prepend(sll, v))
          /\ last' = Called("prepend", <<v>>, <<>>, "none")
    /\ UNCHANGED <<cls, client, graph, dll, stack, heap, hmap, tree, hist>>

SLLInsert ==
    /\ cls = "SinglyLinkedList"
    /\ \E i \in Indices, v \in Values :
          /\ i < 0 \/ i > sll.length \/ SLL_room(sll)
          /\ LET r == SLL_insert(sll, i, v)
             IN  /\ sll' = SLL_collect(r.st)
                 /\ last' = Called("insert", <<i, v>>, r.ret, r.err)
    /\ UNCHANGED <<cls, client, graph, dll, stack, heap, hmap, tree, hist>>

SLLDelete ==
    /\ cls = "SinglyLinkedList"
    /\ \E key \in Values :
          LET r == SLL_delete(sll, key)
          IN  /\ sll' = SLL_collect(r.st)
              /\ last' = Called("delete", <<key>>, r.ret, r.err)
    /\ UNCHANGED <<cls, client, graph, dll, stack, heap, hmap, tree, hist>>

SLLGet ==
    /\ cls = "SinglyLinkedList"
    /\ \E i \in Indices :
          LET r == SLL_get(sll, i)
          IN  /\ sll' = SLL_collect(r.st)
              /\ last' = Called("get", <<i>>, r.ret, r.err)
    /\ UNCHANGED <<cls, client, graph, dll, stack, heap, hmap, tree, hist>>

SLLClear ==
    /\ cls = "SinglyLinkedList"
    /\ sll' = SLL_collect(SLL_clear(sll))
    /\ last' = Cleared(SLL_len(sll))
    /\ UNCHANGED <<cls, client, graph, dll, stack, heap, hmap, tree, hist>>

NextSLL ==
    \/ SLLAppend \/ SLLPrepend \/ SLLInsert \/ SLLDelete \/ SLLGet \/ SLLClear

\* ------------------------------------------- the same call on both lists
BothAppend ==
    /\ cls = BothLists
    /\ SLL_room(sll) /\ DLL_room(dll)
    /\ \E v \in Values :
          /\ sll' = SLL_collect(SLL_append(sll, v))
          /\ dll' = DLL_collect(DLL_append(dll, v))
          /\ last' = CalledBoth("append", <<v>>, Return(sll, <<>>), Return(dll, <<>>))
    /\ UNCHANGED <<cls, client, graph, stack, heap, hmap, tree, hist>>

BothPrepend ==
    /\ cls = BothLists
    /\ SLL_room(sll) /\ DLL_room(dll)
    /\ \E v \in Values :
          /\ sll' = SLL_collect(SLL_prepend(sll, v))
          /\ dll' = DLL_collect(DLL_prepend(dll, v))
          /\ last' = CalledBoth("prepend", <<v>>, Return(sll, <<>>), Return(dll, <<>>))
    /\ UNCHANGED <<cls, client, graph, stack, heap, hmap, tree, hist>>

BothInsert ==
    /\ cls = BothLists
    /\ \E i \in Indices, v \in Values :
          /\ i < 0 \/ i > sll.length \/ SLL_room(sll)
          /\ i < 0 \/ i > dll.length \/ DLL_room(dll)
          /\ LET s == SLL_insert(sll, i, v)
                 d == DLL_insert(dll, i, v)
             IN  /\ sll' = SLL_collect(s.st)
                 /\ dll' = DLL_collect(d.st)
                 /\ last' = CalledBoth("insert", <<i, v>>, s, d)
    /\ UNCHANGED <<cls, client, graph, stack, heap, hmap, tree, hist>>

BothDelete ==
    /\ cls = BothLists
    /\ \E key \in Values :
          LET s == SLL_delete(sll, key)
              d == DLL_delete(dll, key)
          IN  /\ sll' = SLL_collect(s.st)
              /\ dll' = DLL_collect(d.st)
              /\ last' = CalledBoth("delete", <<key>>, s, d)
    /\ UNCHANGED <<cls, client, graph, stack, heap, hmap, tree, hist>>

BothClear ==
    /\ cls = BothLists
    /\ sll' = SLL_collect(SLL_clear(sll))
    /\ dll' = DLL_collect(DLL_clear(dll))
    /\ last' = CalledBoth("clear", <<>>, Return(sll, <<>>), Return(dll, <<>>))
    /\ UNCHANGED <<cls, client, graph, stack, heap, hmap, tree, hist>>

NextBoth == BothAppend \/ BothPrepend \/ BothInsert \/ BothDelete \/ BothClear

\* ----------------------------------------------------------- Stack actions
StackPush ==
    /\ cls \in StackClasses
    /\ Len(stack) < MaxLen
    /\ Len(hist) < MaxHist
    /\ \E v \in Values :
          /\ stack' = Stack_push(stack, v)
          /\ hist' = Append(hist, Event("push", v))
          /\ last' = Called("push", <<v>>, <<>>, "none")
    /\ UNCHANGED <<cls, client, graph, dll, sll, heap, hmap, tree>>

StackPop ==
    /\ cls \in StackClasses
    /\ LET r == Stack_pop(stack)
       IN  /\ r.err = "none" => Len(hist) < MaxHist
           /\ stack' = r.st
           /\ hist' = IF r.err = "none"
                      THEN Append(hist, Event("pop", r.ret[1])) ELSE hist
           /\ last' = Called("pop", <<>>, r.ret, r.err)
    /\ UNCHANGED <<cls, client, graph, dll, sll, heap, hmap, tree>>

StackPeek ==
    /\ cls \in StackClasses
    /\ LET r == Stack_peek(stack)
       IN  /\ stack' = r.st
           /\ last' = Called("peek", <<>>, r.ret, r.err)
    /\ UNCHANGED <<cls, client, graph, dll, sll, heap, hmap, tree, hist>>

StackClear ==
    /\ cls \in StackClasses
    /\ stack' = Stack_clear(stack)
    /\ hist' = <<>>
    /\ last' = Cleared(Stack_len(stack))
    /\ UNCHANGED <<cls, client, graph, dll, sll, heap, hmap, tree>>

NextStack == StackPush \/ StackPop \/ StackPeek \/ StackClear

\* ----------------------------------------------------------- Queue actions
QueueEnqueue ==
    /\ cls = "Queue"
    /\ DLL_room(dll)
    /\ Len(hist) < MaxHist
    /\ \E v \in Values :
          /\ dll' = DLL_collect(Queue_enqueue(dll, v))
          /\ hist' = Append(hist, Event("enqueue", v))
          /\ last' = Called("enqueue", <<v>>, <<>>, "none")
    /\ UNCHANGED <<cls, client, graph, sll, stack, heap, hmap, tree>>

QueueDequeue ==
    /\ cls = "Queue"
    /\ LET r == Queue_dequeue(dll)
       IN  /\ r.err = "none" => Len(hist) < MaxHist
           /\ dll' = DLL_collect(r.st)
           /\ hist' = IF r.err = "none"
                      THEN Append(hist, Event("dequeue", r.ret[1])) ELSE hist
           /\ last' = Called("dequeue", <<>>, r.ret, r.err)
    /\ UNCHANGED <<cls, client, graph, sll, stack, heap, hmap, tree>>

QueueFront ==
    /\ cls = "Queue"
    /\ LET r == Queue_front(dll)
       IN  /\ dll' = DLL_collect(r.st)
           /\ last' = Called("front", <<>>, r.ret, r.err)
    /\ UNCHANGED <<cls, client, graph, sll, stack, heap, hmap, tree, hist>>

QueueBack ==
    /\ cls = "Queue"
    /\ LET r == Queue_back(dll)
       IN  /\ dll' = DLL_collect(r.st)
           /\ last' = Called("back", <<>>, r.ret, r.err)
    /\ UNCHANGED <<cls, client, graph, sll, stack, heap, hmap, tree, hist>>

QueueClear ==
    /\ cls = "Queue"
    /\ dll' = DLL_collect(Queue_clear(dll))
    /\ hist' = <<>>
    /\ last' = Cleared(Queue_len(dll))
    /\ UNCHANGED <<cls, client, graph, sll, stack, heap, hmap, tree>>

NextQueue ==
    QueueEnqueue \/ QueueDequeue \/ QueueFront \/ QueueBack \/ QueueClear

\* ------------------------------------------------------------ Heap actions
HeapPush ==
    /\ cls \in AnyHeap
    /\ Len(heap) < MaxHeapLen
    /\ \E v \in Values :
          LET r == Heap_push(cls, heap, v)
          IN  /\ heap' = r.st
              /\ last' = Called("push", <<v>>, r.ret, r.err)
    /\ UNCHANGED <<cls, client, graph, dll, sll, stack, hmap, tree, hist>>

HeapPop ==
    /\ cls \in AnyHeap
    /\ LET r == Heap_pop(cls, heap)
       IN  /\ heap' = r.st
           /\ last' = Called("pop", <<>>, r.ret, r.err)
    /\ UNCHANGED <<cls, client, graph, dll, sll, stack, hmap, tree, hist>>

HeapPeek ==
    /\ cls \in AnyHeap
    /\ LET r == Heap_peek(heap)
       IN  /\ heap' = r.st
           /\ last' = Called("peek", <<>>, r.ret, r.err)
    /\ UNCHANGED <<cls, client, graph, dll, sll, stack, hmap, tree, hist>>

HeapClear ==
    /\ cls \in AnyHeap
    /\ heap' = Heap_clear(heap)
    /\ last' = Cleared(Heap_len(heap))
    /\ UNCHANGED <<cls, client, graph, dll, sll, stack, hmap, tree, hist>>

HeapHeapify ==
    /\ cls \in AnyHeap
    /\ \E arr \in HeapInputs :
          LET r == Heap_heapify(cls, heap, arr)
          IN  /\ heap' = r.st
              /\ last' = Called("heapify", <<arr>>, r.ret, r.err)
    /\ UNCHANGED <<cls, client, graph, dll, sll, stack, hmap, tree, hist>>

HeapSort ==
    /\ cls \in AnyHeap
    /\ LET r == Heap_sort(cls, heap)
       IN  /\ heap' = r.st
           /\ last' = Called("sort", <<>>, r.ret, r.err)
    /\ UNCHANGED <<cls, client, graph, dll, sll, stack, hmap, tree, hist>>

\* heapify of a list cut out of TEST_DATA_INPUT, and pop(), on a heap whose
\* client keeps a log: the list heapified, then the values popped since.
HeapHeapifyData ==
    /\ cls \in {"MaxHeap", "MinHeap"}
    /\ \E arr \in DataInputs :
          LET r == Heap_heapify(cls, heap, arr)
          IN  /\ heap' = r.st
              /\ hist' = <<Event("heapify", arr)>>
              /\ last' = Called("heapify", <<arr>>, r.ret, r.err)
    /\ UNCHANGED <<cls, client, graph, dll, sll, stack, hmap, tree>>

HeapPopLogged ==
    /\ cls \in {"MaxHeap", "MinHeap"}
    /\ LET r == Heap_pop(cls, heap)
       IN  /\ heap' = r.st
           /\ hist' = IF r.err = "none"
                      THEN Append(hist, Event("pop", r.ret[1])) ELSE hist
           /\ last' = Called("pop", <<>>, r.ret, r.err)
    /\ UNCHANGED <<cls, client, graph, dll, sll, stack, hmap, tree>>

NextHeapData == HeapHeapifyData \/ HeapPopLogged

NextHeap == HeapPush \/ HeapPop \/ HeapPeek \/ HeapClear

\* heapify and sort too.
NextHeaps == NextHeap \/ HeapHeapify \/ HeapSort

\* ------------------------------------------------ the client's list object
\* The elements of the list object the client holds.
ClientList ==
    IF ~client.same THEN client.list
    ELSE IF cls \in StackClasses THEN stack ELSE heap

\* The list object the client holds gets the elements `list`: when it is the
\* container's own list object, the container's elements are these.
ListBecomes(list) ==
    /\ client' = IF client.same THEN client ELSE NewList(list)
    /\ stack' = IF client.same /\ cls \in StackClasses THEN list ELSE stack
    /\ heap' = IF client.same /\ cls \in AnyHeap THEN list ELSE heap

\* items.append(999) on the list the client holds.
ListAppend ==
    /\ client.held
    /\ Len(ClientList) < MaxLen
    /\ ListBecomes(Append(ClientList, Appended))
    /\ last' = Called("list.append", <<Appended>>, <<>>, "none")
    /\ UNCHANGED <<cls, dll, sll, hmap, tree, graph, hist>>

\* items.clear() on the list the client holds.
ListClear ==
    /\ client.held
    /\ ListBecomes(<<>>)
    /\ last' = Called("list.clear", <<>>, <<>>, "none")
    /\ UNCHANGED <<cls, dll, sll, hmap, tree, graph, hist>>

ListOps == {"list.append", "list.clear"}

StackTraverse ==
    /\ cls \in StackClasses
    /\ client' = IF cls = TopStack THEN TopStack_traverse_list(stack)
                  ELSE Stack_traverse_list(stack)
    /\ last' = Called("traverse", <<>>, <<Stack_traverse(stack)>>, "none")
    /\ UNCHANGED <<cls, dll, sll, stack, heap, hmap, tree, graph, hist>>

QueueTraverse ==
    /\ cls = "Queue"
    /\ client' = Queue_traverse_list(dll)
    /\ last' = Called("traverse", <<>>, <<Queue_traverse(dll)>>, "none")
    /\ UNCHANGED <<cls, dll, sll, stack, heap, hmap, tree, graph, hist>>

HeapTraverse ==
    /\ cls \in AnyHeap
    /\ client' = Heap_traverse_list(heap)
    /\ last' = Called("traverse", <<>>, <<Heap_traverse(heap)>>, "none")
    /\ UNCHANGED <<cls, dll, sll, stack, heap, hmap, tree, graph, hist>>

\* heapify(arr) by a client that keeps the list arr it passed.
HeapHeapifyKept ==
    /\ cls \in AnyHeap
    /\ \E arr \in HeapInputs :
          LET r == Heap_heapify(cls, heap, arr)
          IN  /\ heap' = r.st
              /\ client' = Heap_heapify_arr(cls, arr)
              /\ last' = Called("heapify", <<arr>>, r.ret, r.err)
    /\ UNCHANGED <<cls, dll, sll, stack, hmap, tree, graph, hist>>

NextTraverse ==
    \/ StackPush \/ QueueEnqueue \/ HeapPush
    \/ StackTraverse \/ QueueTraverse \/ HeapTraverse
    \/ ListAppend \/ ListClear

NextHeapify == HeapHeapifyKept \/ ListAppend \/ ListClear

\* ------------------------------------------------------ sorting.py actions
\* The client calls a function of sorting.py on the list it holds; `left` is
\* the list as the call leaves it.
Sort(op, left) ==
    /\ cls = "sorting"
    /\ client' = NewList(left)
    /\ last' = Called(op, <<ClientList>>, <<>>, "none")
    /\ UNCHANGED <<cls, dll, sll, stack, heap, hmap, tree, graph, hist>>

BubbleSort == Sort("bubble_sort", bubble_sort(ClientList))

InsertionSort == Sort("insertion_sort", insertion_sort(ClientList))

SelectionSort == Sort("selection_sort", selection_sort(ClientList))

MergeSort == Sort("merge_sort", merge_sort(ClientList))

QuickSort == Sort("quick_sort", quick_sort(ClientList))

\* counting_sort is called on lists of non-negative integers only.
CountingSort ==
    /\ ClientList \in CountingInputs
    /\ Sort("counting_sort", counting_sort(ClientList))

NextSorting ==
    \/ BubbleSort \/ InsertionSort \/ SelectionSort
    \/ MergeSort \/ QuickSort \/ CountingSort

\* ------------------------------------------------ binary_search.py actions
\* The client calls binary_search(arr, val) once the call before has ended.
\* While the call runs, `last` holds its local variables as well.
BinarySearchCall ==
    /\ cls = "binary_search"
    /\ last.op = "binary_search" => last.pc # "while"
    /\ \E arr \in SearchInputs, val \in SearchedFor :
          LET f == binary_search_enter(arr)
          IN  last' = [op |-> "binary_search", args |-> <<arr, val>>,
                       ret |-> f.ret, err |-> f.err, left |-> f.left,
                       right |-> f.right, read |-> f.read, pc |-> f.pc]
    /\ UNCHANGED <<cls, client, dll, sll, stack, heap, hmap, tree, graph, hist>>

\* The running call tests its loop condition and runs the loop body once.
BinarySearchStep ==
    /\ cls = "binary_search"
    /\ last.op = "binary_search"
    /\ last.pc = "while"
    /\ last' = binary_search_step(last.args[1], last.args[2], last)
    /\ UNCHANGED <<cls, client, dll, sll, stack, heap, hmap, tree, graph, hist>>

NextSearch == BinarySearchCall \/ BinarySearchStep

\* --------------------------------------------------------- HashMap actions
HashPut ==
    /\ cls = "HashMap"
    /\ \E key \in Keys, value \in Values :
          /\ hmap' = HM_put(hmap, key, value)
          /\ last' = Called("put", <<key, value>>, <<>>, "none")
    /\ UNCHANGED <<cls, client, graph, dll, sll, stack, heap, tree, hist>>

HashRemove ==
    /\ cls = "HashMap"
    /\ \E key \in Keys :
          LET r == HM_remove(hmap, key)
          IN  /\ hmap' = r.st
              /\ last' = Called("remove", <<key>>, r.ret, r.err)
    /\ UNCHANGED <<cls, client, graph, dll, sll, stack, heap, tree, hist>>

HashGet ==
    /\ cls = "HashMap"
    /\ \E key \in Keys :
          last' = Called("get", <<key>>, HM_get(hmap, key), "none")
    /\ UNCHANGED <<cls, client, graph, dll, sll, stack, heap, hmap, tree, hist>>

HashClear ==
    /\ cls = "HashMap"
    /\ hmap' = HM_clear(hmap)
    /\ last' = Cleared(HM_len(hmap))
    /\ UNCHANGED <<cls, client, graph, dll, sll, stack, heap, tree, hist>>

NextHash == HashPut \/ HashRemove \/ HashGet \/ HashClear

\* ------------------------------------------------------------ tree actions
TreeInsert ==
    /\ cls \in TreeClasses
    /\ Len(Tree_nodes(tree, tree.root)) < MaxTree
    /\ \E value \in TreeValues :
          /\ tree' = Tree_collect(IF cls = "BinarySearchTree"
                                  THEN BST_insert(tree, value)
                                  ELSE BT_insert(tree, value))
          /\ last' = Called("insert", <<value>>, <<>>, "none")
    /\ UNCHANGED <<cls, client, graph, dll, sll, stack, heap, hmap, hist>>

\* BinaryTree has no clear().
TreeClear ==
    /\ cls = "BinarySearchTree"
    /\ tree' = Tree_collect(BST_clear(tree))
    /\ last' = Cleared(BST_len(tree))
    /\ UNCHANGED <<cls, client, graph, dll, sll, stack, heap, hmap, hist>>

\* len(tree) of a BinarySearchTree, size() of a BinaryTree
TreeSize ==
    /\ cls \in TreeClasses
    /\ last' = Called("size", <<>>,
                      <<IF cls = "BinarySearchTree" THEN BST_len(tree)
                        ELSE BT_size(tree)>>, "none")
    /\ UNCHANGED <<cls, client, graph, dll, sll, stack, heap, hmap, tree, hist>>

TreeHeight ==
    /\ cls \in TreeClasses
    /\ last' = Called("height", <<>>,
                      <<IF cls = "BinarySearchTree" THEN BST_height(tree)
                        ELSE BT_height(tree)>>, "none")
    /\ UNCHANGED <<cls, client, graph, dll, sll, stack, heap, hmap, tree, hist>>

TreeSearch ==
    /\ cls \in TreeClasses
    /\ \E value \in TreeValues :
          last' = Called("search", <<value>>,
                         <<IF cls = "BinarySearchTree" THEN BST_search(tree, value)
                           ELSE BT_search(tree, value)>>, "none")
    /\ UNCHANGED <<cls, client, graph, dll, sll, stack, heap, hmap, tree, hist>>

\* inorder() of a BinarySearchTree, inorder_iterative() of a BinaryTree
TreeInorder ==
    /\ cls \in TreeClasses
    /\ LET r == IF cls = "BinarySearchTree" THEN BST_inorder(tree)
                ELSE BT_inorder_iterative(tree)
       IN  last' = Called("inorder", <<>>, r.ret, r.err)
    /\ UNCHANGED <<cls, client, graph, dll, sll, stack, heap, hmap, tree, hist>>

\* preorder(), postorder() and bfs() of a BinarySearchTree;
\* preorder_iterative(), postorder_iterative() and level_order() of a
\* BinaryTree
TreeTraverse ==
    /\ cls \in TreeClasses
    /\ \E op \in {"preorder", "postorder", "bfs"} :
          LET r == IF cls = "BinarySearchTree"
                   THEN CASE op = "preorder" -> BST_preorder(tree)
                          [] op = "postorder" -> BST_postorder(tree)
                          [] op = "bfs" -> BST_bfs(tree)
                   ELSE CASE op = "preorder" -> BT_preorder_iterative(tree)
                          [] op = "postorder" -> BT_postorder_iterative(tree)
                          [] op = "bfs" -> BT_level_order(tree)
          IN  last' = Called(op, <<>>, r.ret, r.err)
    /\ UNCHANGED <<cls, client, graph, dll, sll, stack, heap, hmap, tree, hist>>

NextTree ==
    \/ TreeInsert \/ TreeClear \/ TreeSize \/ TreeHeight \/ TreeSearch
    \/ TreeInorder \/ TreeTraverse

\* ----------------------------------------------------------- graph actions
\* The client calls with values of V, edges of E and, where the method takes
\* it, with `directed` in D.
GraphAddNode(V) ==
    /\ cls = "Graph"
    /\ \E value \in V :
          /\ graph' = Graph_collect(Graph_add_node(graph, value))
          /\ last' = Called("add_node", <<value>>, <<>>, "none")
    /\ UNCHANGED <<cls, client, dll, sll, stack, heap, hmap, tree, hist>>

GraphAddEdge(E, D) ==
    /\ cls = "Graph"
    /\ \E e \in E, directed \in D :
          /\ graph' = Graph_collect(Graph_add_edge(graph, e[1], e[2], directed))
          /\ last' = Called("add_edge", <<e[1], e[2], directed>>, <<>>, "none")
    /\ UNCHANGED <<cls, client, dll, sll, stack, heap, hmap, tree, hist>>

GraphRemoveNode(V) ==
    /\ cls = "Graph"
    /\ \E value \in V :
          /\ graph' = Graph_collect(Graph_remove_node(graph, value))
          /\ last' = Called("remove_node", <<value>>, <<>>, "none")
    /\ UNCHANGED <<cls, client, dll, sll, stack, heap, hmap, tree, hist>>

GraphRemoveEdge(E, D) ==
    /\ cls = "Graph"
    /\ \E e \in E, directed \in D :
          /\ graph' = Graph_collect(Graph_remove_edge(graph, e[1], e[2], directed))
          /\ last' = Called("remove_edge", <<e[1], e[2], directed>>, <<>>, "none")
    /\ UNCHANGED <<cls, client, dll, sll, stack, heap, hmap, tree, hist>>

GraphSize ==
    /\ cls = "Graph"
    /\ last' = Called("size", <<>>, <<Graph_size(graph)>>, "none")
    /\ UNCHANGED <<cls, client, dll, sll, stack, heap, hmap, tree, graph, hist>>

GraphGetNeighbors(V) ==
    /\ cls = "Graph"
    /\ \E value \in V, order \in Orders(V) :
          last' = Called("get_neighbors", <<value>>,
                         <<Graph_get_neighbors(graph, value, order)>>, "none")
    /\ UNCHANGED <<cls, client, dll, sll, stack, heap, hmap, tree, graph, hist>>

GraphHasEdge(V) ==
    /\ cls = "Graph"
    /\ \E val1 \in V, val2 \in V :
          last' = Called("has_edge", <<val1, val2>>,
                         <<Graph_has_edge(graph, val1, val2)>>, "none")
    /\ UNCHANGED <<cls, client, dll, sll, stack, heap, hmap, tree, graph, hist>>

GraphBfs(V) ==
    /\ cls = "Graph"
    /\ \E start_value \in V, order \in Orders(V) :
          LET r == Graph_bfs(graph, start_value, order)
          IN  last' = Called("bfs", <<start_value>>, r.ret, r.err)
    /\ UNCHANGED <<cls, client, dll, sll, stack, heap, hmap, tree, graph, hist>>

GraphDfs(V) ==
    /\ cls = "Graph"
    /\ \E start_value \in V, order \in Orders(V) :
          LET r == Graph_dfs(graph, start_value, order)
          IN  last' = Called("dfs", <<start_value>>, r.ret, r.err)
    /\ UNCHANGED <<cls, client, dll, sll, stack, heap, hmap, tree, graph, hist>>

\* A client that adds and removes nodes and directed and undirected edges
\* between the values of GraphValues, self-loops too.
NextGraph ==
    \/ GraphAddNode(GraphValues)
    \/ GraphAddEdge(GraphValues \X GraphValues, BOOLEAN)
    \/ GraphRemoveNode(GraphValues)
    \/ GraphRemoveEdge(GraphValues \X GraphValues, BOOLEAN)
    \/ GraphSize

\* A client that modifies the graph through undirected calls only.
NextUndirected ==
    \/ GraphAddNode(GraphValues)
    \/ GraphAddEdge(GraphValues \X GraphValues, {FALSE})
    \/ GraphRemoveNode(GraphValues)
    \/ GraphRemoveEdge(GraphValues \X GraphValues, {FALSE})
    \/ GraphHasEdge(GraphValues) \/ GraphGetNeighbors(GraphValues)

\* A client that builds a graph of directed edges, cycles and self-loops
\* too, and traverses it.
NextTraversal ==
    \/ GraphAddNode(GraphValues)
    \/ GraphAddEdge(GraphValues \X GraphValues, {TRUE})
    \/ GraphRemoveNode(GraphValues)
    \/ GraphBfs(GraphValues) \/ GraphDfs(GraphValues)

\* A client that modifies the graph through undirected calls and asks all
\* four queries, of values that are nodes and of values that are not.
NextQueries ==
    \/ NextUndirected \/ GraphBfs(GraphValues) \/ GraphDfs(GraphValues)

\* A client that adds and removes the nodes and the edges of
\* tests/test_graph.py, in any order and in either direction, and traverses
\* the graph.
NextGraphTest ==
    \/ GraphAddNode(NODES)
    \/ GraphAddEdge(EDGES \cup {<<e[2], e[1]>> : e \in EDGES}, BOOLEAN)
    \/ GraphRemoveNode(NODES)
    \/ GraphRemoveEdge(EDGES \cup {<<e[2], e[1]>> : e \in EDGES}, BOOLEAN)
    \/ GraphBfs(NODES) \/ GraphDfs(NODES)

\* ---------------------------------------------------------- specifications
NextClearable ==
    NextDLL \/ NextSLL \/ NextStack \/ NextQueue \/ NextHeaps \/ NextHash \/ NextTree

Next == NextClearable \/ NextGraph \/ NextQueries \/ NextTraversal \/ NextBoth

Spec == Init /\ [][Next]_vars

\* A client that owns one Stack.
InitStack == Constructed({"Stack"})

SpecStack == InitStack /\ [][NextStack]_vars

\* A client that owns one Queue.
InitQueue == Constructed({"Queue"})

SpecQueue == InitQueue /\ [][NextQueue]_vars

\* A client that owns one DoublyLinkedList.
InitDLL == Constructed({"DoublyLinkedList"})

SpecDLL == InitDLL /\ [][NextDLL]_vars

\* A client that owns one list of either class.
InitLists == Constructed({"SinglyLinkedList", "DoublyLinkedList"})

NextLists == NextDLL \/ NextSLL

SpecLists == InitLists /\ [][NextLists]_vars

\* A client that owns one container with remove and peek operations.
InitContainers ==
    Constructed({"Stack", "Queue", "DoublyLinkedList", "MaxHeap", "MinHeap"})

NextContainers == NextStack \/ NextQueue \/ NextDLL \/ NextHeap

SpecContainers == InitContainers /\ [][NextContainers]_vars

\* A client that owns one HashMap.
InitHeap == Constructed(HeapClasses)

SpecHeap == InitHeap /\ [][NextHeaps]_vars

InitTree == Constructed(TreeClasses)

SpecTree == InitTree /\ [][NextTree]_vars

InitClearable ==
    Constructed({"SinglyLinkedList", "DoublyLinkedList", "Stack", "Queue",
                 "HashMap", "MaxHeap", "MinHeap", "BinarySearchTree"})

SpecClearable == InitClearable /\ [][NextClearable]_vars

InitHeapData == Constructed({"MaxHeap", "MinHeap"})

SpecHeapData == InitHeapData /\ [][NextHeapData]_vars

\* A client that owns one Stack (of either module), Queue, MaxHeap or MinHeap
\* and changes the lists traverse() returns.
InitTraverse == Constructed(StackClasses \cup {"Queue", "MaxHeap", "MinHeap"})

SpecTraverse == InitTraverse /\ [][NextTraverse]_vars

\* A client that owns one MaxHeap or MinHeap and changes the lists it has
\* passed to heapify.
InitHeapify == Constructed({"MaxHeap", "MinHeap"})

SpecHeapify == InitHeapify /\ [][NextHeapify]_vars

\* A client that holds a list and calls the functions of sorting.py on it.
InitSorting ==
    /\ cls = "sorting"
    /\ \E arr \in SortInputs : client = NewList(arr)
    /\ dll = EmptyDLL
    /\ sll = EmptySLL
    /\ stack = EmptyStack
    /\ heap = EmptyHeap
    /\ hmap = EmptyHashMap(DefaultCapacity)
    /\ tree = EmptyTree
    /\ graph = EmptyGraph
    /\ hist = <<>>
    /\ last = Called("__init__", <<>>, <<>>, "none")

SpecSorting == InitSorting /\ [][NextSorting]_vars

\* A client that calls binary_search on sorted lists.  A call that has been
\* entered keeps running: nothing else runs in its thread.
InitSearch == Constructed({"binary_search"})

SpecSearch == InitSearch /\ [][NextSearch]_vars /\ WF_vars(BinarySearchStep)

InitStrategy == Constructed(StrategyClasses)

SpecStrategy == InitStrategy /\ [][NextHeap]_vars

\* A client that owns one Graph.
InitGraph == Constructed({"Graph"})

SpecGraph == InitGraph /\ [][NextGraph]_vars

SpecUndirected == InitGraph /\ [][NextUndirected]_vars

SpecTraversal == InitGraph /\ [][NextTraversal]_vars

SpecGraphTest == InitGraph /\ [][NextGraphTest]_vars

SpecQueries == InitGraph /\ [][NextQueries]_vars

InitBoth == Constructed({BothLists})

SpecBoth == InitBoth /\ [][NextBoth]_vars

InitHash == Constructed({"HashMap"})

SpecHash == InitHash /\ [][NextHash]_vars

\* ------------------------------------------------------ observed histories
\* The values of the events of one kind in a history, oldest first.
ValuesOf(h, op) ==
    LET sel == SelectSeq(h, LAMBDA e : e.op = op)
    IN  [i \in 1 .. Len(sel) |-> sel[i].val]

IsPrefix(p, q) == Len(p) <= Len(q) /\ \A i \in 1 .. Len(p) : p[i] = q[i]

Enqueued == ValuesOf(hist, "enqueue")
Dequeued == ValuesOf(hist, "dequeue")

\* Replays the events h[i..] on the values pushed and not yet popped before
\* h[i] (pending, most recent last): ok says that every pop returned the
\* most recent pending push, pending is what remains pushed and not popped.
RECURSIVE Replay(_, _, _)
Replay(h, i, pending) ==
    IF i > Len(h) THEN [ok |-> TRUE, pending |-> pending]
    ELSE IF h[i].op = "push" THEN Replay(h, i + 1, Append(pending, h[i].val))
    ELSE IF pending # <<>> /\ h[i].val = pending[Len(pending)]
         THEN Replay(h, i + 1, SubSeq(pending, 1, Len(pending) - 1))
         ELSE [ok |-> FALSE, pending |-> pending]

\* The set of nodes next leads to from the head of a list.
RECURSIVE ReachableNodes(_, _)
ReachableNodes(nxt, S) ==
    LET T == (S \cup {nxt[n] : n \in S}) \ {NULL}
    IN  IF T = S THEN S ELSE ReachableNodes(nxt, T)

NodesFromHead(l) == ReachableNodes(l.next, {l.head} \ {NULL})

\* ---------------------------------------------------------------- C1 .. C10

\* C1: Queue is FIFO.  In every state of a Queue driven by any interleaving of
\* enqueue and dequeue calls, the values the successful dequeue() calls have
\* returned are, in order, a prefix of the values passed to enqueue().
C1_QueueFIFO == IsPrefix(Dequeued, Enqueued)

\* C1 witness: two dequeues returned different values, with an enqueue made
\* between them.
C1_Witness ==
    /\ cls = "Queue"
    /\ Len(Dequeued) >= 2
    /\ Dequeued[1] # Dequeued[2]
    /\ \E i, j, k \in 1 .. Len(hist) :
          /\ i < j /\ j < k
          /\ hist[i].op = "dequeue" /\ hist[j].op = "enqueue" /\ hist[k].op = "dequeue"

\* C2: Stack is LIFO.  Every successful pop() has returned the most recently
\* pushed value that had not been popped yet, and every pop dropped len() by
\* one: len() is the number of pushes minus the number of successful pops.
C2_StackLIFO ==
    /\ Replay(hist, 1, <<>>).ok
    /\ Stack_len(stack) = Len(ValuesOf(hist, "push")) - Len(ValuesOf(hist, "pop"))

\* C2 witness: two pushes of different values, then both popped.
C2_Witness ==
    /\ cls = "Stack"
    /\ Len(hist) >= 4
    /\ hist[Len(hist)].op = "pop"
    /\ hist[Len(hist) - 1].op = "pop"
    /\ hist[Len(hist)].val # hist[Len(hist) - 1].val

\* C3: DoublyLinkedList link integrity.  After any sequence of append,
\* prepend, insert, delete, pop_front and clear, every node x reachable from
\* the head whose next is a node y has y.prev = x.
C3_LinkIntegrity ==
    cls = "DoublyLinkedList" =>
        \A x \in NodesFromHead(dll) :
            dll.next[x] # NULL => dll.prev[dll.next[x]] = x

\* C3 witness: a node was deleted from the middle of a list that keeps at
\* least three nodes.
C3_Witness ==
    /\ cls = "DoublyLinkedList"
    /\ last.op = "delete"
    /\ last.ret = <<TRUE>>
    /\ dll.length >= 3
    /\ dll.data[dll.head] # last.args[1]
    /\ dll.data[dll.tail] # last.args[1]

\* The length of the list the client owns, and the nodes reachable from its head.
ListLen == IF cls = "DoublyLinkedList" THEN DLL_len(dll) ELSE SLL_len(sll)
ListNodes == IF cls = "DoublyLinkedList" THEN NodesFromHead(dll) ELSE NodesFromHead(sll)

\* C4: for both list classes, after any sequence of operations (failed ones
\* included) len() is the number of nodes reachable from the head; an append
\* or prepend raises len() by one, a delete of a present key lowers it by
\* one, so n appends/prepends followed by k such deletes leave len() = n - k.
C4_LenCountsNodes ==
    /\ [](ListLen = Cardinality(ListNodes))
    /\ [][/\ last'.op \in {"append", "prepend"} => ListLen' = ListLen + 1
          /\ (last'.op = "delete" /\ last'.ret = <<TRUE>>) => ListLen' = ListLen - 1
          /\ (last'.op = "delete" /\ last'.ret = <<FALSE>>) => ListLen' = ListLen
          /\ last'.err # "none" => ListLen' = ListLen]_vars

\* C4 witness: a singly linked list that still holds two nodes after the
\* delete of a present key.
C4_Witness ==
    /\ cls = "SinglyLinkedList"
    /\ last.op = "delete"
    /\ last.ret = <<TRUE>>
    /\ SLL_len(sll) = 2

\* The list the client owns, and its element sequence.
TheList == IF cls = "DoublyLinkedList" THEN dll ELSE sll
ListTraverse == IF cls = "DoublyLinkedList" THEN DLL_traverse(dll) ELSE SLL_traverse(sll)

\* C5: for both list classes, insert(i, v) with i < 0 or i > len() raises
\* IndexError and leaves the list unchanged (same elements, same length, same
\* head and tail), and insert(i, v) with 0 <= i <= len() does not raise.
C5_InsertIndexError ==
    [][last'.op = "insert" =>
         LET i == last'.args[1]
         IN  /\ (i < 0 \/ i > ListLen) =>
                   /\ last'.err = "IndexError"
                   /\ ListTraverse' = ListTraverse
                   /\ ListLen' = ListLen
                   /\ TheList' = TheList
             /\ (0 <= i /\ i <= ListLen) => last'.err = "none"]_vars

\* C5 witness: an insert one past the valid indices of a doubly linked list
\* of three elements has raised.
C5_Witness ==
    /\ cls = "DoublyLinkedList"
    /\ last.op = "insert"
    /\ last.err = "IndexError"
    /\ last.args[1] = DLL_len(dll) + 1
    /\ DLL_len(dll) = 3

\* C6: for both list classes, get(i) succeeds exactly when 0 <= i < len() and
\* then returns the i-th element of traverse(), whichever end the doubly
\* linked list walks from; otherwise (so for -1 and len()) it raises IndexError.
C6_GetIndex ==
    last.op = "get" =>
        LET i == last.args[1]
        IN  /\ last.err = "none" <=> (0 <= i /\ i < ListLen)
            /\ last.err = "none" => last.ret = <<ListTraverse[i + 1]>>
            /\ last.err # "none" => last.err = "IndexError"

\* C6 witness: a get on a doubly linked list that walked back from the tail
\* over at least one node, to an element that differs from the tail's.
C6_Witness ==
    /\ cls = "DoublyLinkedList"
    /\ last.op = "get"
    /\ last.err = "none"
    /\ last.args[1] > DLL_len(dll) \div 2
    /\ last.args[1] < DLL_len(dll) - 1
    /\ last.ret # <<dll.data[dll.tail]>>

\* The container the client owns is empty / is in its constructed state.
IsEmpty ==
    CASE cls = "Stack" -> Stack_is_empty(stack)
      [] cls \in {"Queue", "DoublyLinkedList"} -> DLL_is_empty(dll)
      [] cls \in {"MaxHeap", "MinHeap"} -> Heap_is_empty(heap)

Container ==
    CASE cls = "Stack" -> stack
      [] cls \in {"Queue", "DoublyLinkedList"} -> dll
      [] cls \in {"MaxHeap", "MinHeap"} -> heap

ContainerLen ==
    CASE cls = "Stack" -> Stack_len(stack)
      [] cls \in {"Queue", "DoublyLinkedList"} -> DLL_len(dll)
      [] cls \in {"MaxHeap", "MinHeap"} -> Heap_len(heap)

AsConstructed ==
    CASE cls = "Stack" -> stack = EmptyStack
      [] cls \in {"Queue", "DoublyLinkedList"} -> dll = EmptyDLL
      [] cls \in {"MaxHeap", "MinHeap"} -> heap = EmptyHeap

RemoveOps == {"pop", "dequeue", "pop_front"}
PeekOps == {"peek", "front", "back", "peek_front", "peek_back"}

\* C7: a remove or peek operation (Stack.pop/peek, Queue.dequeue/front/back,
\* DoublyLinkedList.pop_front/peek_front/peek_back, Heap.pop/peek) called on
\* an empty container raises IndexError and leaves the container empty, with
\* length 0, in the state a new container has (so usable as a new one is).
C7_EmptyRaises ==
    [][(last'.op \in RemoveOps \cup PeekOps /\ IsEmpty) =>
          /\ last'.err = "IndexError"
          /\ IsEmpty'
          /\ ContainerLen' = 0
          /\ AsConstructed']_vars

\* C7 witness: a Queue that was filled and drained has refused a dequeue.
C7_Witness ==
    /\ cls = "Queue"
    /\ last.op = "dequeue"
    /\ last.err = "IndexError"
    /\ Len(Dequeued) >= 2

\* What a peek operation has to return in the current state.
PeekExpected(op) ==
    CASE cls = "Stack" -> Replay(hist, 1, <<>>).pending[Len(Replay(hist, 1, <<>>).pending)]
      [] cls = "Queue" /\ op = "front" -> Enqueued[Len(Dequeued) + 1]
      [] cls = "Queue" /\ op = "back" -> Enqueued[Len(Enqueued)]
      [] cls = "DoublyLinkedList" /\ op = "peek_front" -> dll.data[dll.head]
      [] cls = "DoublyLinkedList" /\ op = "peek_back" -> dll.data[dll.tail]
      [] cls \in {"MaxHeap", "MinHeap"} -> heap[1]

\* C8: peek operations do not mutate.  On a non-empty container Queue.front()
\* returns the oldest element not yet dequeued and Queue.back() the most
\* recently enqueued one, which are the data of the backing list's head and
\* tail; Stack.peek() returns the last pushed element still on the stack and
\* Heap.peek() the root; the container's contents and length stay as they
\* were, so the same call made again returns the same value.
C8_PeekPure ==
    [][(last'.op \in PeekOps /\ ~IsEmpty) =>
          /\ last'.err = "none"
          /\ last'.ret = <<PeekExpected(last'.op)>>
          /\ cls = "Queue" =>
                last'.ret = <<dll.data[IF last'.op = "front" THEN dll.head ELSE dll.tail]>>
          /\ Container' = Container
          /\ ContainerLen' = ContainerLen
          /\ hist' = hist]_vars

\* C8 witness: front() on a Queue that has dequeued before and holds at least
\* two elements, the oldest different from the newest.
C8_Witness ==
    /\ cls = "Queue"
    /\ last.op = "front"
    /\ last.err = "none"
    /\ Len(Dequeued) >= 1
    /\ DLL_len(dll) >= 2
    /\ dll.data[dll.head] # dll.data[dll.tail]

\* C9: HashMap.  put(k, v) makes get(k) return v, and get(k) keeps returning
\* it until the next put or remove of k (clear() removes every key, k among
\* them), also when several keys share a bucket; put on an existing key
\* replaces its value and leaves len() unchanged, put on a new key raises
\* len() by one, and neither changes the value of any other key.
C9_PutGet ==
    [][/\ last'.op = "put" =>
             LET k == last'.args[1]
                 v == last'.args[2]
             IN  /\ HM_get(hmap', k) = <<v>>
                 /\ HM_len(hmap') = HM_len(hmap) + (IF HM_contains(hmap, k) THEN 0 ELSE 1)
                 /\ \A o \in Keys \ {k} : HM_get(hmap', o) = HM_get(hmap, o)
       /\ last'.op = "remove" =>
             \A o \in Keys \ {last'.args[1]} : HM_get(hmap', o) = HM_get(hmap, o)
       /\ last'.op = "get" =>
             /\ last'.ret = HM_get(hmap, last'.args[1])
             /\ \A o \in Keys : HM_get(hmap', o) = HM_get(hmap, o)]_vars

\* C9 witness: capacity 8 with the keys 0, 8 and 16 in one bucket, after a put
\* that replaced the value of the key in the middle of it.
C9_Witness ==
    /\ cls = "HashMap"
    /\ hmap.capacity = DefaultCapacity
    /\ Len(hmap.buckets[1]) = 3
    /\ HM_len(hmap) = 3
    /\ last.op = "put"
    /\ hmap.buckets[1][2] = <<last.args[1], last.args[2]>>
    /\ hmap.buckets[1][1][2] # last.args[2]
    /\ \A k \in {0, 8, 16} : HM_contains(hmap, k)

\* All (key, value) pairs of the map with their place: bucket b, position i.
HashPlaces(m) ==
    UNION {{<<b, i>> : i \in DOMAIN m.buckets[b]} : b \in DOMAIN m.buckets}

RECURSIVE SumOfSizes(_, _)
SumOfSizes(buckets, b) ==
    IF b > Len(buckets) THEN 0
    ELSE Len(buckets[b]) + SumOfSizes(buckets, b + 1)

\* C10: HashMap invariant after any sequence of put, remove and clear: a key
\* occurs in at most one pair over all buckets, every pair sits in bucket
\* hash(key) mod capacity, the number of buckets is (and stays) the capacity
\* the map was constructed with, and len() is the sum of the bucket sizes.
C10_HashInvariant ==
    /\ [](/\ \A p, q \in HashPlaces(hmap) :
                hmap.buckets[p[1]][p[2]][1] = hmap.buckets[q[1]][q[2]][1] => p = q
          /\ \A p \in HashPlaces(hmap) :
                p[1] - 1 = PyHash(hmap.buckets[p[1]][p[2]][1]) % hmap.capacity
          /\ Len(hmap.buckets) = hmap.capacity
          /\ HM_len(hmap) = SumOfSizes(hmap.buckets, 1))
    /\ [][/\ hmap'.capacity = hmap.capacity
          /\ Len(hmap'.buckets) = Len(hmap.buckets)]_vars

\* C10 witness: a remove took a pair out of a bucket that still holds two,
\* in a map of capacity 3 that holds a pair in another bucket as well.
C10_Witness ==
    /\ cls = "HashMap"
    /\ hmap.capacity = 3
    /\ last.op = "remove"
    /\ last.ret = <<TRUE>>
    /\ Len(hmap.buckets[HM_hash(hmap, last.args[1]) + 1]) = 2
    /\ HM_len(hmap) >= 3

\* C11: HashMap.remove(k) returns True exactly when k is present; it then
\* lowers len() by one and makes get(k) return None and contains(k) return
\* False; when k is absent it returns False and changes nothing; in both
\* cases every other key keeps its value (and stays present or absent).
C11_Remove ==
    [][last'.op = "remove" =>
          LET k == last'.args[1]
          IN  /\ last'.err = "none"
              /\ last'.ret = <<HM_contains(hmap, k)>>
              /\ HM_contains(hmap, k) =>
                    /\ HM_len(hmap') = HM_len(hmap) - 1
                    /\ HM_get(hmap', k) = <<>>
                    /\ ~HM_contains(hmap', k)
              /\ ~HM_contains(hmap, k) => hmap' = hmap
              /\ \A o \in Keys \ {k} :
                    /\ HM_get(hmap', o) = HM_get(hmap, o)
                    /\ HM_contains(hmap', o) = HM_contains(hmap, o)]_vars

\* C11 witness: remove(k) returned True for the key in the middle of a
\* bucket of three: its two neighbours are still there, in their order.
C11_Witness ==
    /\ cls = "HashMap"
    /\ hmap.capacity = DefaultCapacity
    /\ last.op = "remove"
    /\ last.ret = <<TRUE>>
    /\ last.args[1] = 8
    /\ Len(hmap.buckets[1]) = 2
    /\ hmap.buckets[1][1][1] = 0
    /\ hmap.buckets[1][2][1] = 16

\* The container the client owns is in the state its constructor leaves.
FreshState ==
    CASE cls = "SinglyLinkedList" -> sll = EmptySLL
      [] cls \in {"DoublyLinkedList", "Queue"} -> dll = EmptyDLL
      [] cls = "Stack" -> stack = EmptyStack
      [] cls = "HashMap" -> hmap = EmptyHashMap(hmap.capacity)
      [] cls \in {"MaxHeap", "MinHeap"} -> heap = EmptyHeap
      [] cls = "BinarySearchTree" -> tree = EmptyTree

\* The queries of the container the client owns answer as on a new one.
FreshQueries ==
    CASE cls = "SinglyLinkedList" ->
           /\ SLL_len(sll) = 0
           /\ SLL_is_empty(sll)
           /\ SLL_traverse(sll) = <<>>
           /\ \A v \in Values : ~SLL_search(sll, v)
           /\ \A i \in Indices : SLL_get(sll, i).err = "IndexError"
      [] cls = "DoublyLinkedList" ->
           /\ DLL_len(dll) = 0
           /\ DLL_is_empty(dll)
           /\ DLL_traverse(dll) = <<>>
           /\ \A v \in Values : ~DLL_search(dll, v)
           /\ \A i \in Indices : DLL_get(dll, i).err = "IndexError"
           /\ DLL_peek_front(dll).err = "IndexError"
           /\ DLL_peek_back(dll).err = "IndexError"
      [] cls = "Stack" ->
           /\ Stack_len(stack) = 0
           /\ Stack_is_empty(stack)
           /\ Stack_traverse(stack) = <<>>
           /\ Stack_peek(stack).err = "IndexError"
      [] cls = "Queue" ->
           /\ Queue_len(dll) = 0
           /\ Queue_is_empty(dll)
           /\ Queue_traverse(dll) = <<>>
           /\ Queue_front(dll).err = "IndexError"
           /\ Queue_back(dll).err = "IndexError"
      [] cls = "HashMap" ->
           /\ HM_len(hmap) = 0
           /\ HM_is_empty(hmap)
           /\ HM_keys(hmap) = <<>>
           /\ \A k \in Keys : HM_get(hmap, k) = <<>> /\ ~HM_contains(hmap, k)
      [] cls \in {"MaxHeap", "MinHeap"} ->
           /\ Heap_len(heap) = 0
           /\ Heap_is_empty(heap)
           /\ Heap_traverse(heap) = <<>>
           /\ Heap_peek(heap).err = "IndexError"
      [] cls = "BinarySearchTree" ->
           /\ BST_len(tree) = 0
           /\ BST_is_empty(tree)
           /\ BST_height(tree) = 0
           /\ BST_inorder(tree) = Return(tree, <<<<>>>>)
           /\ \A v \in TreeValues : ~BST_search(tree, v)

\* C12: clear() resets to the freshly constructed state.  For
\* SinglyLinkedList, DoublyLinkedList, Stack, Queue, HashMap (which keeps its
\* capacity), Heap and BinarySearchTree, after clear() following any sequence
\* of operations the container is in the state the constructor leaves, so
\* every later sequence of operations gives what it gives on a new container,
\* and the queries (len, is_empty, traverse/keys, search/get/contains, peeks)
\* answer as on a new container.
C12_ClearResets ==
    [][last'.op = "clear" =>
          /\ FreshState'
          /\ FreshQueries'
          /\ hmap'.capacity = hmap.capacity
          /\ hist' = <<>>]_vars

\* C12 witness: clear() on a HashMap of capacity 3 that held three pairs.
C12_Witness ==
    /\ cls = "HashMap"
    /\ hmap.capacity = 3
    /\ last.op = "clear"
    /\ last.held >= 3

\* C13: heap property.  For MaxHeap and MinHeap of heap.py, after any
\* sequence of heapify, push, pop, sort and clear, no element of the internal
\* array has higher priority than its parent: for every index i > 0,
\* is_better(heap[i], heap[(i - 1) // 2]) is false, duplicates included.
C13_HeapProperty ==
    cls \in {"MaxHeap", "MinHeap"} =>
       \A i \in 1 .. Len(heap) - 1 :
          Heap_is_better(cls, heap[i + 1], heap[((i - 1) \div 2) + 1]) =
             Return(cls, <<FALSE>>)

\* C13 witness: heapify has built a MaxHeap of four elements whose root
\* occurs twice, from a list whose first element is not the largest.
C13_Witness ==
    /\ cls = "MaxHeap"
    /\ last.op = "heapify"
    /\ Len(heap) = 4
    /\ last.args[1][1] # heap[1]
    /\ Cardinality({i \in 1 .. 4 : heap[i] = heap[1]}) = 2

\* pop() repeated until the heap is empty: the values returned, in order.
RECURSIVE PopAll(_, _)
PopAll(c, h) ==
    IF Heap_is_empty(h) THEN <<>>
    ELSE LET r == Heap_pop(c, h)
         IN  r.ret \o PopAll(c, r.st)

\* How often the value v occurs in the sequence q.
Count(q, v) == Cardinality({i \in DOMAIN q : q[i] = v})

\* The sequence q holds exactly the elements of the sequence h.
SameElements(q, h) == \A v \in HeapValues : Count(q, v) = Count(h, v)

\* C14: popping a heap of heap.py until it is empty returns exactly the
\* multiset of elements it held, in descending order for MaxHeap and in
\* ascending order for MinHeap, whether heapify or pushes built the heap; and
\* each pop() returns the first of those values and leaves the others to come.
C14_PopOrder ==
    /\ [](cls \in {"MaxHeap", "MinHeap"} =>
            LET q == PopAll(cls, heap)
            IN  /\ SameElements(q, heap)
                /\ Len(q) = Len(heap)
                /\ \A i \in 1 .. Len(q) - 1 :
                      IF cls = "MaxHeap" THEN q[i] >= q[i + 1] ELSE q[i] <= q[i + 1])
    /\ [][(cls \in {"MaxHeap", "MinHeap"} /\ last'.op = "pop" /\ ~Heap_is_empty(heap)) =>
             /\ last'.err = "none"
             /\ last'.ret = <<PopAll(cls, heap)[1]>>
             /\ PopAll(cls, heap') = Tail(PopAll(cls, heap))]_vars

\* C14 witness: a pop() of a MinHeap returned 1 and left a heap that still
\* holds a 1, a 2 and a 3.
C14_Witness ==
    /\ cls = "MinHeap"
    /\ last.op = "pop"
    /\ last.ret = <<1>>
    /\ \A v \in HeapValues : Count(heap, v) >= 1

\* The client heapified TEST_DATA_INPUT on a MaxHeap and popped until the
\* heap was empty.
DataDrained ==
    /\ cls = "MaxHeap"
    /\ hist # <<>>
    /\ hist[1] = Event("heapify", TEST_DATA_INPUT)
    /\ Heap_is_empty(heap)

\* C15 as claimed: on a MaxHeap, heapify([12,-3,7,12,-10,0,25,8,5,-2])
\* followed by pop() repeated until the heap is empty yields exactly the
\* sequence [25,12,12,8,7,5,0,-3,-10].
C15_PopsAsClaimed ==
    DataDrained => ValuesOf(Tail(hist), "pop") = <<25, 12, 12, 8, 7, 5, 0, -3, -10>>

\* C15 amended: on a MaxHeap, heapify([12,-3,7,12,-10,0,25,8,5,-2]) followed
\* by pop() repeated until the heap is empty yields exactly the sequence
\* [25,12,12,8,7,5,0,-2,-3,-10]: all ten elements, the -2 among them.
C15_PopsAllTen ==
    DataDrained => ValuesOf(Tail(hist), "pop") = <<25, 12, 12, 8, 7, 5, 0, -2, -3, -10>>

\* C15 witness: the tenth pop() has emptied the heap built from
\* TEST_DATA_INPUT.
C15_Witness ==
    /\ DataDrained
    /\ last.op = "pop"
    /\ last.err = "none"
    /\ Len(hist) = 1 + Len(TEST_DATA_INPUT)

\* C16: Heap.sort() returns all elements in priority order (descending for
\* MaxHeap, ascending for MinHeap) and leaves the heap unchanged: the internal
\* array has the same contents in the same positions before and after, so the
\* pop() sequence that follows is unchanged; also when an error aborts sort()
\* part-way through the drain (Heap._is_better raising in the sift of a
\* pop(), after that pop() has taken the last element and replaced the root).
C16_SortPreserves ==
    [][last'.op = "sort" =>
          /\ heap' = heap
          /\ cls = "Heap" =>
                last'.err = (IF Len(heap) >= 3 THEN "NotImplementedError" ELSE "none")
          /\ cls \in {"MaxHeap", "MinHeap"} =>
                /\ last'.err = "none"
                /\ PopAll(cls, heap') = PopAll(cls, heap)
                /\ LET result == last'.ret[1]
                   IN  /\ Len(result) = Len(heap)
                       /\ SameElements(result, heap)
                       /\ \A i \in 1 .. Len(result) - 1 :
                             IF cls = "MaxHeap" THEN result[i] >= result[i + 1]
                             ELSE result[i] <= result[i + 1]]_vars

\* C16 witness: a sort() of a Heap of four elements was aborted by the
\* NotImplementedError of _is_better, raised in the sift of its first pop().
C16_Witness ==
    /\ cls = "Heap"
    /\ last.op = "sort"
    /\ last.err = "NotImplementedError"
    /\ Len(heap) = 4
    /\ Heap_pop(cls, heap).err = "NotImplementedError"
    /\ Heap_pop(cls, heap).st # SubSeq(heap, 1, 3)

\* C17: the MaxHeap class of max_heap.py uses the strategy
\* is_better(a, b) = a > b, so after any pushes its root (peek) is the
\* largest element, and the MinHeap class of min_heap.py uses
\* is_better(a, b) = a < b, so its root is the smallest element.
C17_StrategyRoot ==
    last.op = "push" =>
       /\ cls = "max_heap.MaxHeap" =>
             /\ \A i \in 1 .. Len(heap) : Heap_peek(heap).ret[1] >= heap[i]
             /\ \A i, j \in 1 .. Len(heap) :
                   Heap_is_better(cls, heap[i], heap[j]) = Return(cls, <<heap[i] > heap[j]>>)
       /\ cls = "min_heap.MinHeap" =>
             /\ \A i \in 1 .. Len(heap) : Heap_peek(heap).ret[1] <= heap[i]
             /\ \A i, j \in 1 .. Len(heap) :
                   Heap_is_better(cls, heap[i], heap[j]) = Return(cls, <<heap[i] < heap[j]>>)

\* The nodes of the subtree of node n, and the values stored in the tree.
Subtree(t, n) ==
    LET nodes == Tree_nodes(t, n)
    IN  {nodes[i] : i \in 1 .. Len(nodes)}
StoredValues(t) == {t.value[n] : n \in Subtree(t, t.root)}

\* len(tree) of a BinarySearchTree, size() of a BinaryTree.
TreeSizeOf(t) == IF cls = "BinarySearchTree" THEN BST_len(t) ELSE BT_size(t)

\* C18: BST property.  After any sequence of insert calls on a
\* BinarySearchTree or a BinaryTree, for every node all values in its left
\* subtree are strictly smaller and all values in its right subtree strictly
\* larger than the node's value, and no value is stored twice.
C18_BSTProperty ==
    cls \in TreeClasses =>
       /\ \A n \in Subtree(tree, tree.root) :
             /\ \A m \in Subtree(tree, tree.left[n]) : tree.value[m] < tree.value[n]
             /\ \A m \in Subtree(tree, tree.right[n]) : tree.value[m] > tree.value[n]
       /\ \A n, m \in Subtree(tree, tree.root) :
             tree.value[n] = tree.value[m] => n = m

\* C18 witness: the seventh insert into a BinarySearchTree gave a tree of
\* height 4 whose root has two subtrees.
C18_Witness ==
    /\ cls = "BinarySearchTree"
    /\ last.op = "insert"
    /\ BST_len(tree) = 7
    /\ BST_height(tree) = 4
    /\ tree.left[tree.root] # NULL
    /\ tree.right[tree.root] # NULL

\* C19: inserting a value already present in the tree is a no-op: it raises
\* no error and leaves the tree's shape unchanged; and the size
\* (len(BinarySearchTree) / BinaryTree.size()) always equals the number of
\* distinct values inserted so far (since the tree was constructed or last
\* cleared): it is the number of values stored, an insert adds its value to
\* the values stored and nothing else, and raises the size by one exactly
\* when the value is new.
C19_DuplicateInsert ==
    /\ [](cls \in TreeClasses =>
             TreeSizeOf(tree) = Cardinality(StoredValues(tree)))
    /\ [][last'.op = "insert" =>
             LET value == last'.args[1]
                 stored == StoredValues(tree)
                 present == value \in stored
             IN  /\ last'.err = "none"
                 /\ present => tree' = tree
                 /\ StoredValues(tree') = stored \cup {value}
                 /\ TreeSizeOf(tree') = TreeSizeOf(tree) + (IF present THEN 0 ELSE 1)]_vars
    /\ [][(cls \in TreeClasses /\ last'.op = "clear") =>
             StoredValues(tree') = {} /\ TreeSizeOf(tree') = 0]_vars

\* C19 witness: an insert into a BinaryTree of seven nodes of a value that a
\* node with two children, not the root, holds: the value was there before.
C19_Witness ==
    /\ cls = "BinaryTree"
    /\ last.op = "insert"
    /\ BT_size(tree) = 7
    /\ \E n \in Subtree(tree, tree.root) \ {tree.root} :
          /\ tree.value[n] = last.args[1]
          /\ tree.left[n] # NULL
          /\ tree.right[n] # NULL

\* The elements of the set S of integers in ascending order.
RECURSIVE Ascending(_)
Ascending(S) ==
    IF S = {} THEN <<>>
    ELSE LET least == CHOOSE x \in S : \A y \in S : x <= y
         IN  <<least>> \o Ascending(S \ {least})

\* C20: BinarySearchTree.inorder() (and iteration over the tree) returns
\* every stored value exactly once in ascending order; for one, after
\* inserting [50,30,20,40,70,60,80] it returns [20,30,40,50,60,70,80].
C20_InorderAscending ==
    (cls = "BinarySearchTree" /\ last.op = "inorder") =>
       /\ last.err = "none"
       /\ last.ret = <<Ascending(StoredValues(tree))>>
       /\ BST_iter(tree) = BST_inorder(tree)
       /\ StoredValues(tree) = TreeValues =>
             last.ret = <<(<<20, 30, 40, 50, 60, 70, 80>>)>>

\* The values of the subtree of node n in the three depth-first orders, by
\* their recursive definitions.
RECURSIVE RootLeftRight(_, _)
RootLeftRight(t, n) ==
    IF n = NULL THEN <<>>
    ELSE <<t.value[n]>> \o RootLeftRight(t, t.left[n]) \o RootLeftRight(t, t.right[n])

RECURSIVE LeftRootRight(_, _)
LeftRootRight(t, n) ==
    IF n = NULL THEN <<>>
    ELSE LeftRootRight(t, t.left[n]) \o <<t.value[n]>> \o LeftRootRight(t, t.right[n])

RECURSIVE LeftRightRoot(_, _)
LeftRightRoot(t, n) ==
    IF n = NULL THEN <<>>
    ELSE LeftRightRoot(t, t.left[n]) \o LeftRightRoot(t, t.right[n]) \o <<t.value[n]>>

\* The values at depth d below node n, left before right, and the values of
\* the tree level by level from depth d on.
RECURSIVE AtDepth(_, _, _)
AtDepth(t, n, d) ==
    IF n = NULL THEN <<>>
    ELSE IF d = 0 THEN <<t.value[n]>>
    ELSE AtDepth(t, t.left[n], d - 1) \o AtDepth(t, t.right[n], d - 1)

RECURSIVE ByLevel(_, _)
ByLevel(t, d) ==
    IF AtDepth(t, t.root, d) = <<>> THEN <<>>
    ELSE AtDepth(t, t.root, d) \o ByLevel(t, d + 1)

\* What the traversal op has to return on the tree t.
Expected(op, t) ==
    CASE op = "preorder" -> RootLeftRight(t, t.root)
      [] op = "inorder" -> LeftRootRight(t, t.root)
      [] op = "postorder" -> LeftRightRoot(t, t.root)
      [] op = "bfs" -> ByLevel(t, 0)

\* The tree holds the values of [50,30,20,40,70,60,80] in the shape their
\* insertion in that order gives.
TestTree ==
    RootLeftRight(tree, tree.root) = <<50, 30, 20, 40, 70, 60, 80>>

\* C21: BinarySearchTree.preorder(), postorder() and bfs() each return every
\* stored value exactly once, in root-left-right, left-right-root and level
\* (top to bottom, left before right) order respectively; for one, after
\* inserting [50,30,20,40,70,60,80] preorder() returns [50,30,20,40,70,60,80].
C21_BSTTraversals ==
    (cls = "BinarySearchTree" /\ last.op \in {"preorder", "postorder", "bfs"}) =>
       /\ last.err = "none"
       /\ last.ret = <<Expected(last.op, tree)>>
       /\ (TestTree /\ last.op = "preorder") =>
             last.ret = <<(<<50, 30, 20, 40, 70, 60, 80>>)>>

\* C22: for BinaryTree, each iterative traversal returns the sequence of its
\* recursive definition on every tree built by inserts: inorder_iterative =
\* left, root, right (hence ascending), preorder_iterative = root, left,
\* right, postorder_iterative = left, right, root, level_order = by depth,
\* left before right; each returns [] on the empty tree and ends with its
\* stack or queue empty.
C22_IterativeIsRecursive ==
    cls = "BinaryTree" =>
       /\ BT_inorder_iterative(tree) = Return(EmptyStack, <<LeftRootRight(tree, tree.root)>>)
       /\ BT_inorder_iterative(tree).ret[1] = Ascending(StoredValues(tree))
       /\ BT_preorder_iterative(tree) = Return(EmptyStack, <<RootLeftRight(tree, tree.root)>>)
       /\ BT_postorder_iterative(tree) = Return(EmptyStack, <<LeftRightRoot(tree, tree.root)>>)
       /\ BT_level_order(tree).ret = <<ByLevel(tree, 0)>>
       /\ BT_level_order(tree).err = "none"
       /\ Queue_is_empty(BT_level_order(tree).st)
       /\ BT_is_empty(tree) =>
             \A r \in {BT_inorder_iterative(tree), BT_preorder_iterative(tree),
                       BT_postorder_iterative(tree)} : r.ret = <<(<<>>)>>
       /\ last.op \in {"preorder", "inorder", "postorder", "bfs"} =>
             last.err = "none" /\ last.ret = <<Expected(last.op, tree)>>

\* C22 witness: postorder_iterative() on the BinaryTree that the inserts of
\* tests/test_binary_tree.py build.
C22_Witness ==
    /\ cls = "BinaryTree"
    /\ TestTree
    /\ last.op = "postorder"
    /\ last.ret = <<(<<20, 40, 30, 60, 80, 70, 50>>)>>

\* C23: search(v) returns True exactly when v has been inserted since
\* construction (or since the last clear), and False otherwise, including on
\* the empty tree; search never changes the tree.  The values inserted since
\* then are the values stored: none at construction and after a clear, and
\* an insert of v adds v to them and nothing else.
C23_Search ==
    /\ [](cls \in TreeClasses =>
             /\ last.op \in {"__init__", "clear"} => StoredValues(tree) = {}
             /\ \A v \in TreeValues :
                   /\ BST_search(tree, v) = (v \in StoredValues(tree))
                   /\ BT_search(tree, v) = (v \in StoredValues(tree))
             /\ last.op = "search" =>
                   /\ last.err = "none"
                   /\ last.ret = <<last.args[1] \in StoredValues(tree)>>
                   /\ tree.root = NULL => last.ret = <<FALSE>>)
    /\ [][(cls \in TreeClasses /\ last'.op = "search") => tree' = tree]_vars
    /\ [][(cls \in TreeClasses /\ last'.op = "insert") =>
             StoredValues(tree') = StoredValues(tree) \cup {last'.args[1]}]_vars

\* C23 witness: searches on the BinarySearchTree of the test data, one for
\* 60, a left child in the right subtree, which is found.
C23_Witness ==
    /\ cls = "BinarySearchTree"
    /\ TestTree
    /\ last.op = "search"
    /\ last.args = <<60>>
    /\ last.ret = <<TRUE>>

\* The node set and the edge set of the graph g, as size and has_edge show
\* them.
NodeSet(g) == DOMAIN g.adj_list

EdgeSet(g) == {e \in NODES \X NODES : Graph_has_edge(g, e[1], e[2])}

\* C24: in a Graph modified only through undirected calls (add_node,
\* add_edge and remove_edge with directed=False, remove_node), edges are
\* symmetric in every reachable state: has_edge(u, v) = has_edge(v, u) for
\* all u, v.
C24_Symmetric ==
    cls = "Graph" =>
       /\ \A u, v \in NODES : Graph_has_edge(graph, u, v) = Graph_has_edge(graph, v, u)
       /\ last.op = "has_edge" =>
             last.ret = <<Graph_has_edge(graph, last.args[2], last.args[1])>>

\* C24 witness: has_edge(2, 1) is true in a graph of three nodes in which
\* an undirected remove_edge took the edge between 2 and 3 away.
C24_Witness ==
    /\ cls = "Graph"
    /\ last.op = "has_edge"
    /\ last.args = <<2, 1>>
    /\ last.ret = <<TRUE>>
    /\ NodeSet(graph) = GraphValues
    /\ EdgeSet(graph) = {<<1, 2>>, <<2, 1>>, <<3, 3>>}

\* What add_edge(u, v, directed) does in a step; with loopsApart, nothing is
\* said of has_edge(v, u) after a directed add_edge(u, u).
AddEdgeStep(loopsApart) ==
    last'.op = "add_edge" =>
       LET u == last'.args[1]
           v == last'.args[2]
           directed == last'.args[3]
       IN  /\ NodeSet(graph') = NodeSet(graph) \cup {u, v}
           /\ \A x \in NodeSet(graph) : graph'.adj_list[x] = graph.adj_list[x]
           /\ \A x, y \in NODES :
                 <<x, y>> \notin {<<u, v>>, <<v, u>>} =>
                    Graph_has_edge(graph', x, y) = Graph_has_edge(graph, x, y)
           /\ Graph_has_edge(graph', u, v)
           /\ ~directed => Graph_has_edge(graph', v, u)
           /\ (directed /\ (loopsApart => u # v)) =>
                 Graph_has_edge(graph', v, u) = Graph_has_edge(graph, v, u)

\* C25: after add_edge(u, v, directed), both u and v are nodes of the graph
\* (created if absent, existing nodes and their other edges kept),
\* has_edge(u, v) is true, and has_edge(v, u) is true if directed is False
\* and otherwise keeps the value it had before the call.
C25_AddEdge == [][AddEdgeStep(FALSE)]_vars

\* C25 as it holds: after add_edge(u, v, directed), both u and v are nodes of
\* the graph (created if absent, existing nodes and their other edges kept),
\* has_edge(u, v) is true, and has_edge(v, u) is true if directed is False
\* or u = v, and otherwise keeps the value it had before the call.
C25_AddEdgeLoopsApart == [][AddEdgeStep(TRUE)]_vars

\* C25 witness: a directed add_edge(1, 2) that created node 1, in a graph
\* that keeps its edges 2 -> 3 and 3 -> 3 and has no edge 2 -> 1.
C25_Witness ==
    /\ cls = "Graph"
    /\ last.op = "add_edge"
    /\ last.args = <<1, 2, TRUE>>
    /\ EdgeSet(graph) = {<<1, 2>>, <<2, 3>>, <<3, 3>>}

\* C26: remove_node(v) on a present node decreases size by one and removes
\* every edge into or out of v: afterwards has_edge(v, x) and has_edge(x, v)
\* are false and v is in no get_neighbors(x) for any x, while edges between
\* other nodes are unchanged; on an absent value it does nothing.
C26_RemoveNode ==
    [][last'.op = "remove_node" =>
          LET v == last'.args[1]
          IN  IF v \in NodeSet(graph)
              THEN /\ Graph_size(graph') = Graph_size(graph) - 1
                   /\ NodeSet(graph') = NodeSet(graph) \ {v}
                   /\ \A x \in NODES :
                         /\ ~Graph_has_edge(graph', v, x)
                         /\ ~Graph_has_edge(graph', x, v)
                         /\ \A order \in Orders(NodeSet(graph)) :
                               LET neighbors == Graph_get_neighbors(graph', x, order)
                               IN  \A i \in DOMAIN neighbors : neighbors[i] # v
                   /\ \A x, y \in NODES \ {v} :
                         Graph_has_edge(graph', x, y) = Graph_has_edge(graph, x, y)
              ELSE graph' = graph]_vars

\* C26 witness: remove_node(2) took node 2 and its edges out of a graph
\* that keeps the nodes 1 and 3 and the edges 1 -> 3 and 3 -> 3.
C26_Witness ==
    /\ cls = "Graph"
    /\ last.op = "remove_node"
    /\ last.args = <<2>>
    /\ NodeSet(graph) = {1, 3}
    /\ EdgeSet(graph) = {<<1, 3>>, <<3, 3>>}

\* C27: add_node is idempotent: add_node(v) when v is already a node leaves
\* the node count and all of v's existing edges (in both directions)
\* unchanged.
C27_AddNodeIdempotent ==
    [][(last'.op = "add_node" /\ last'.args[1] \in NodeSet(graph)) =>
          /\ Graph_size(graph') = Graph_size(graph)
          /\ \A x \in NODES :
                /\ Graph_has_edge(graph', last'.args[1], x)
                      = Graph_has_edge(graph, last'.args[1], x)
                /\ Graph_has_edge(graph', x, last'.args[1])
                      = Graph_has_edge(graph, x, last'.args[1])
          /\ graph' = graph]_vars

\* C27 witness: add_node(2) on a graph in which 2 has an edge to 1, an edge
\* from 3 and a self-loop.
C27_Witness ==
    /\ cls = "Graph"
    /\ last.op = "add_node"
    /\ last.args = <<2>>
    /\ EdgeSet(graph) = {<<2, 1>>, <<3, 2>>, <<2, 2>>}

\* What remove_edge(u, v, directed) does in a step; with loopsApart, nothing
\* is said of has_edge(v, u) after a directed remove_edge(u, u).
RemoveEdgeStep(loopsApart) ==
    last'.op = "remove_edge" =>
       LET u == last'.args[1]
           v == last'.args[2]
           directed == last'.args[3]
       IN  /\ NodeSet(graph') = NodeSet(graph)
           /\ Graph_size(graph') = Graph_size(graph)
           /\ \A x, y \in NODES :
                 <<x, y>> \notin {<<u, v>>, <<v, u>>} =>
                    Graph_has_edge(graph', x, y) = Graph_has_edge(graph, x, y)
           /\ ~Graph_has_edge(graph', u, v)
           /\ ~directed => ~Graph_has_edge(graph', v, u)
           /\ (directed /\ (loopsApart => u # v)) =>
                 Graph_has_edge(graph', v, u) = Graph_has_edge(graph, v, u)
           /\ (u \notin NodeSet(graph) \/ v \notin NodeSet(graph)) => graph' = graph

\* C28: remove_edge(u, v, directed) mirrors add_edge: with directed=False it
\* makes has_edge(u, v) and has_edge(v, u) false; with directed=True it
\* removes only u->v and leaves v->u as it was; it never removes nodes (size
\* unchanged), never touches other edges, and is a no-op when either
\* endpoint is absent.
C28_RemoveEdge == [][RemoveEdgeStep(FALSE)]_vars

\* C28 as it holds: the same, except that a directed remove_edge(u, u)
\* removes the self-loop, which is both u->v and v->u.
C28_RemoveEdgeLoopsApart == [][RemoveEdgeStep(TRUE)]_vars

\* C28 witness: a directed remove_edge(1, 2) that left the edge 2 -> 1 and
\* the edge 2 -> 3 in place.
C28_Witness ==
    /\ cls = "Graph"
    /\ last.op = "remove_edge"
    /\ last.args = <<1, 2, TRUE>>
    /\ NodeSet(graph) = GraphValues
    /\ EdgeSet(graph) = {<<2, 1>>, <<2, 3>>}

\* The values reachable from the values of S along the edges of g.
RECURSIVE ReachableFrom(_, _)
ReachableFrom(g, S) ==
    LET T == S \cup {v \in NodeSet(g) : \E u \in S : Graph_has_edge(g, u, v)}
    IN  IF T = S THEN S ELSE ReachableFrom(g, T)

NoRepeats(seq) == \A i, j \in DOMAIN seq : i # j => seq[i] # seq[j]

\* The list is each node reachable from start once, and no other node.
ReachableOnce(g, start, list) ==
    /\ NoRepeats(list)
    /\ {list[i] : i \in DOMAIN list} = ReachableFrom(g, {start})

\* C29: for every finite graph, cyclic graphs and graphs with self-loops
\* too, bfs(start) and dfs(start) terminate and return a list that contains
\* each node reachable from start along edges (start included) exactly once
\* and no other node.
C29_Traversal ==
    (cls = "Graph" /\ last.op \in {"bfs", "dfs"} /\ last.args[1] \in NodeSet(graph)) =>
       /\ last.err = "none"
       /\ ReachableOnce(graph, last.args[1], last.ret[1])
       /\ \A order \in Orders(NodeSet(graph)) :
             LET b == Graph_bfs(graph, last.args[1], order)
                 d == Graph_dfs(graph, last.args[1], order)
             IN  /\ b.err = "none" /\ Queue_is_empty(b.st)
                 /\ d.err = "none" /\ Stack_is_empty(d.st)
                 /\ last.ret = (IF last.op = "bfs" THEN b.ret ELSE d.ret)

\* C29 witness: dfs(1) on the cycle 1 -> 2 -> 3 -> 1 with a self-loop at 2.
C29_Witness ==
    /\ cls = "Graph"
    /\ last.op = "dfs"
    /\ last.args = <<1>>
    /\ last.ret = <<(<<1, 2, 3>>)>>
    /\ EdgeSet(graph) = {<<1, 2>>, <<2, 3>>, <<3, 1>>, <<2, 2>>}

\* The successors of v in the edge set E, ascending.
Successors(E, v) == Ascending({e[2] : e \in {d \in E : d[1] = v}})

\* Breadth-first order from the node set N and the edge set E alone: the
\* nodes waiting oldest first, each node taking its successors not yet seen,
\* ascending.
RECURSIVE BreadthFirst(_, _, _, _)
BreadthFirst(E, waiting, seen, visited) ==
    IF waiting = <<>> THEN visited
    ELSE LET new == SelectSeq(Successors(E, Head(waiting)), LAMBDA w : w \notin seen)
         IN  BreadthFirst(E, Tail(waiting) \o new,
                          seen \cup {new[i] : i \in DOMAIN new},
                          Append(visited, Head(waiting)))

\* Depth-first order from N and E alone, by its recursive definition: visit
\* v, then each successor of v not yet visited, ascending.
RECURSIVE DepthFirst(_, _, _)
RECURSIVE DepthFirstEach(_, _, _)
DepthFirst(E, v, visited) ==
    DepthFirstEach(E, Successors(E, v), Append(visited, v))

DepthFirstEach(E, successors, visited) ==
    IF successors = <<>> THEN visited
    ELSE DepthFirstEach(E, Tail(successors),
                        IF \E i \in DOMAIN visited : visited[i] = Head(successors)
                        THEN visited
                        ELSE DepthFirst(E, Head(successors), visited))

\* What bfs / dfs has to return from start on the nodes N and the edges E.
TraversalOf(op, N, E, start) ==
    IF start \notin N THEN <<>>
    ELSE IF op = "bfs" THEN BreadthFirst(E, <<start>>, {start}, <<>>)
    ELSE DepthFirst(E, start, <<>>)

\* The graph of tests/test_graph.py: NODES and EDGES, undirected.
TestGraph ==
    /\ NodeSet(graph) = NODES
    /\ EdgeSet(graph) = EDGES \cup {<<e[2], e[1]>> : e \in EDGES}

\* C30: graph traversal is deterministic: the lists returned by bfs(start)
\* and dfs(start) depend only on the graph's node set and edge set, not on
\* the order in which nodes and edges were added (nor on the order in which
\* the neighbors sets are iterated); with undirected edges (1,2),(2,3),(1,4),
\* bfs(1) = [1,2,4,3] and dfs(1) = [1,2,3,4].
C30_Deterministic ==
    (cls = "Graph" /\ last.op \in {"bfs", "dfs"}) =>
       /\ last.err = "none"
       /\ last.ret = <<TraversalOf(last.op, NodeSet(graph), EdgeSet(graph),
                                   last.args[1])>>
       /\ (TestGraph /\ last.args = <<1>>) =>
             last.ret = IF last.op = "bfs" THEN <<(<<1, 2, 4, 3>>)>>
                        ELSE <<(<<1, 2, 3, 4>>)>>

\* C30 witness: bfs(1) on the graph of tests/test_graph.py.
C30_Witness ==
    /\ cls = "Graph"
    /\ TestGraph
    /\ last.op = "bfs"
    /\ last.args = <<1>>
    /\ last.ret = <<(<<1, 2, 4, 3>>)>>

\* The queries of a Graph.
GraphQueries == {"bfs", "dfs", "get_neighbors", "has_edge"}

\* C31: graph queries on absent values are not errors and do not modify the
\* graph: bfs(s) and dfs(s) return [] when s is not a node, get_neighbors(v)
\* returns [] when v is not a node, has_edge(u, v) returns False when u or v
\* is not a node, and none of these calls creates a node.
C31_AbsentQueries ==
    /\ []((cls = "Graph" /\ last.op \in GraphQueries) =>
             /\ last.err = "none"
             /\ (last.op # "has_edge" /\ last.args[1] \notin NodeSet(graph)) =>
                   last.ret = <<(<<>>)>>
             /\ (last.op = "has_edge"
                   /\ \E i \in {1, 2} : last.args[i] \notin NodeSet(graph)) =>
                   last.ret = <<FALSE>>)
    /\ [][(cls = "Graph" /\ last'.op \in GraphQueries) =>
             /\ NodeSet(graph') = NodeSet(graph)
             /\ Graph_size(graph') = Graph_size(graph)
             /\ graph' = graph]_vars

\* C31 witness: bfs(3) on a graph whose nodes are 1 and 2, joined by an
\* edge, returned [].
C31_Witness ==
    /\ cls = "Graph"
    /\ last.op = "bfs"
    /\ last.args = <<3>>
    /\ last.ret = <<(<<>>)>>
    /\ NodeSet(graph) = {1, 2}
    /\ Graph_has_edge(graph, 1, 2)

\* C39: Graph has no dangling neighbours: after any sequence of add_node,
\* add_edge, remove_edge and remove_node, every node held in any neighbour
\* set is the node object currently registered in the adjacency map under
\* its value; in particular after remove_node(v) followed by add_node(v),
\* as after every add_node of a value that is not a node, the new v has no
\* edges in either direction.
C39_NoDangling ==
    /\ [](cls = "Graph" =>
             \A v \in NodeSet(graph) :
                \A neighbor \in graph.neighbors[graph.adj_list[v]] :
                   /\ neighbor[1] \in NodeSet(graph)
                   /\ graph.adj_list[neighbor[1]] = neighbor)
    /\ [][(last'.op = "add_node" /\ last'.args[1] \notin NodeSet(graph)) =>
             /\ graph'.neighbors[graph'.adj_list[last'.args[1]]] = {}
             /\ \A x \in NODES :
                   /\ ~Graph_has_edge(graph', last'.args[1], x)
                   /\ ~Graph_has_edge(graph', x, last'.args[1])
                   /\ \A order \in Orders(NodeSet(graph')) :
                         LET neighbors == Graph_get_neighbors(graph', x, order)
                         IN  \A i \in DOMAIN neighbors :
                                neighbors[i] # last'.args[1]]_vars

\* C39 witness: add_node(2) registered a node without edges, next to the
\* nodes 1 and 3 that keep the edges 1 -> 3 and 3 -> 3.
C39_Witness ==
    /\ cls = "Graph"
    /\ last.op = "add_node"
    /\ last.args = <<2>>
    /\ NodeSet(graph) = GraphValues
    /\ EdgeSet(graph) = {<<1, 3>>, <<3, 3>>}

\* The sequence seq with v put in before its element i (counted from 0), and
\* seq without its first element equal to key.
Inserted(seq, i, v) == SubSeq(seq, 1, i) \o <<v>> \o SubSeq(seq, i + 1, Len(seq))

First(seq, key) == CHOOSE i \in DOMAIN seq :
                      seq[i] = key /\ \A j \in 1 .. (i - 1) : seq[j] # key

Removed(seq, key) ==
    SubSeq(seq, 1, First(seq, key) - 1) \o SubSeq(seq, First(seq, key) + 1, Len(seq))

\* The nodes of the doubly linked list l met walking prev from the tail.
RECURSIVE DLL_backwards(_, _)
DLL_backwards(l, current) ==
    IF current = NULL THEN <<>>
    ELSE <<l.data[current]>> \o DLL_backwards(l, l.prev[current])

Reverse(seq) == [i \in DOMAIN seq |-> seq[Len(seq) + 1 - i]]

\* head and tail of the doubly linked list l are the first and the last
\* element of seq, and None when seq is empty.
EndsAre(l, seq) ==
    IF seq = <<>> THEN l.head = NULL /\ l.tail = NULL
    ELSE /\ l.head # NULL /\ l.data[l.head] = seq[1]
         /\ l.tail # NULL /\ l.data[l.tail] = seq[Len(seq)]
         /\ DLL_backwards(l, l.tail) = Reverse(seq)

\* get(i) of the list the client owns.
ListGet(l, i) == IF cls = "DoublyLinkedList" THEN DLL_get(l, i) ELSE SLL_get(l, i)

\* C32: for both list classes, insert(i, v) with 0 <= i <= len() produces
\* the element sequence old[0..i-1] + [v] + old[i..]: get(i) is v, earlier
\* elements keep their index and later ones shift by one; for
\* DoublyLinkedList this holds on both the head-side (i <= len()//2) and
\* tail-side walks, and head and tail are the first and last element
\* afterwards.
C32_Insert ==
    [][(last'.op = "insert" /\ 0 <= last'.args[1] /\ last'.args[1] <= ListLen) =>
          LET i == last'.args[1]
              v == last'.args[2]
              old == ListTraverse
          IN  /\ last'.err = "none"
              /\ ListTraverse' = Inserted(old, i, v)
              /\ ListLen' = ListLen + 1
              /\ ListGet(TheList', i).ret = <<v>>
              /\ \A k \in 0 .. (i - 1) : ListGet(TheList', k).ret = <<old[k + 1]>>
              /\ \A k \in i .. (Len(old) - 1) :
                    ListGet(TheList', k + 1).ret = <<old[k + 1]>>
              /\ cls = "DoublyLinkedList" => EndsAre(dll', Inserted(old, i, v))]_vars

\* C32 witness: an insert into a doubly linked list of five elements that
\* walked back from the tail over two nodes, and put a 2 between two 1s.
C32_Witness ==
    /\ cls = "DoublyLinkedList"
    /\ last.op = "insert"
    /\ last.err = "none"
    /\ last.args = <<3, 2>>
    /\ DLL_traverse(dll) = <<1, 1, 1, 2, 1, 1>>

\* C33: for both list classes, delete(key) removes only the first node whose
\* value equals key and returns True, keeping all other elements (later
\* duplicates of key too) in their relative order; when no node equals key
\* it returns False and the list is unchanged; for DoublyLinkedList head and
\* tail are updated when the first or last node is deleted.
C33_Delete ==
    [][last'.op = "delete" =>
          LET key == last'.args[1]
              old == ListTraverse
          IN  /\ last'.err = "none"
              /\ IF \E i \in DOMAIN old : old[i] = key
                 THEN /\ last'.ret = <<TRUE>>
                      /\ ListTraverse' = Removed(old, key)
                      /\ ListLen' = ListLen - 1
                      /\ cls = "DoublyLinkedList" => EndsAre(dll', Removed(old, key))
                 ELSE /\ last'.ret = <<FALSE>>
                      /\ TheList' = TheList]_vars

\* C33 witness: delete(2) on a doubly linked list of five elements took the
\* first of its three 2s away and left the two later ones.
C33_Witness ==
    /\ cls = "DoublyLinkedList"
    /\ last.op = "delete"
    /\ last.args = <<2>>
    /\ last.ret = <<TRUE>>
    /\ DLL_traverse(dll) = <<1, 2, 1, 2>>

\* C38: DoublyLinkedList end-pointer consistency in every reachable state:
\* head is None iff tail is None iff len() == 0 iff is_empty(); when
\* non-empty head.prev is None, tail.next is None and tail is the last node
\* reached by following next from head, so walking prev from tail yields the
\* reverse of traverse().
C38_EndPointers ==
    cls = "DoublyLinkedList" =>
       /\ (dll.head = NULL) = (dll.tail = NULL)
       /\ (dll.head = NULL) = (DLL_len(dll) = 0)
       /\ (dll.head = NULL) = DLL_is_empty(dll)
       /\ ~DLL_is_empty(dll) =>
             LET chain == DLL_chain(dll, dll.head, {})
             IN  /\ dll.prev[dll.head] = NULL
                 /\ dll.next[dll.tail] = NULL
                 /\ dll.tail = chain[Len(chain)]
                 /\ DLL_backwards(dll, dll.tail) = Reverse(DLL_traverse(dll))

\* C38 witness: a pop_front emptied a doubly linked list.
C38_Witness ==
    /\ cls = "DoublyLinkedList"
    /\ last.op = "pop_front"
    /\ last.err = "none"
    /\ DLL_is_empty(dll)
    /\ dll.tail = NULL

\* C40: SinglyLinkedList and DoublyLinkedList are observationally equivalent
\* on their shared operations: applying the same sequence of append,
\* prepend, insert, delete, clear calls to both gives the same results and
\* errors for every call and the same traverse(), len(), is_empty(),
\* search(k) and get(i) afterwards.
C40_Equivalent ==
    cls = BothLists =>
       /\ last.op # "__init__" =>
             last.ret = last.dll_ret /\ last.err = last.dll_err
       /\ SLL_traverse(sll) = DLL_traverse(dll)
       /\ SLL_len(sll) = DLL_len(dll)
       /\ SLL_is_empty(sll) = DLL_is_empty(dll)
       /\ \A key \in Values : SLL_search(sll, key) = DLL_search(dll, key)
       /\ \A i \in Indices :
             /\ SLL_get(sll, i).ret = DLL_get(dll, i).ret
             /\ SLL_get(sll, i).err = DLL_get(dll, i).err

\* C40 witness: an insert at index len() on both lists, which hold the same
\* four elements afterwards, not all equal.
C40_Witness ==
    /\ cls = BothLists
    /\ last.op = "insert"
    /\ last.args = <<3, 2>>
    /\ last.err = "none"
    /\ DLL_traverse(dll) = <<2, 1, 1, 2>>
    /\ SLL_traverse(sll) = <<2, 1, 1, 2>>

\* No element of the array h has higher priority than its parent.
HeapOrdered(c, h) ==
    \A i \in 1 .. Len(h) - 1 :
       ~Heap_is_better(c, h[i + 1], h[((i - 1) \div 2) + 1]).ret[1]

\* C34: heapify(arr) on a MaxHeap or MinHeap replaces whatever the heap held:
\* afterwards the internal array is a permutation of arr that satisfies the
\* heap property and has the length of arr; and the array is storage of its
\* own, so appending to or clearing the list the caller passed leaves the
\* heap as it was.
C34_Heapify ==
    /\ [][last'.op = "heapify" =>
             /\ last'.err = "none"
             /\ SameElements(heap', last'.args[1])
             /\ Len(heap') = Len(last'.args[1])
             /\ HeapOrdered(cls, heap')]_vars
    /\ [][last'.op \in ListOps => heap' = heap]_vars

\* C34 witness: a MaxHeap that heapify filled with four elements, after the
\* caller has cleared the list it passed and appended to it.
C34_Witness ==
    /\ cls = "MaxHeap"
    /\ last.op = "list.append"
    /\ ~client.same
    /\ ClientList = <<Appended>>
    /\ Len(heap) = 4
    /\ heap[4] # heap[3]

\* The elements the container holds, first to last of traverse().
Holds ==
    CASE cls \in StackClasses -> Stack_traverse(stack)
      [] cls = "Queue" -> Queue_traverse(dll)
      [] cls \in AnyHeap -> Heap_traverse(heap)

\* C35: traverse() returns a copy: for the Stack of either module, Queue and
\* Heap, appending to or clearing the list traverse() returned changes
\* neither the elements the container holds nor its length.
C35_TraverseCopy ==
    [][last'.op \in ListOps => Holds' = Holds /\ Len(Holds') = Len(Holds)]_vars

SortOps ==
    {"bubble_sort", "insertion_sort", "selection_sort", "merge_sort",
     "quick_sort", "counting_sort"}

\* The sequence q is in ascending order.
InOrder(q) == \A i \in 1 .. Len(q) - 1 : q[i] <= q[i + 1]

\* The sequence q is a permutation of the sequence h.
Permutation(q, h) ==
    /\ Len(q) = Len(h)
    /\ \A v \in SortValues : Count(q, v) = Count(h, v)

\* C36: each in-place sort of sorting.py (bubble_sort, insertion_sort,
\* selection_sort, merge_sort, quick_sort, and counting_sort on non-negative
\* integers) returns on every input list, the empty list, single-element
\* lists and lists with duplicates included, and leaves the list as the
\* ascending permutation of the elements it had.
C36_Sorts ==
    last.op \in SortOps =>
       /\ last.err = "none"
       /\ InOrder(ClientList)
       /\ Permutation(ClientList, last.args[1])

\* C36 witness: merge_sort has sorted a list of four elements that began
\* with its largest element twice and ended with its smallest.
C36_Witness ==
    /\ last.op = "merge_sort"
    /\ last.args[1] = <<2, 2, 0, -1>>
    /\ ClientList = <<-1, 0, 2, 2>>

\* The elements of the sequence q.
Elements(q) == {q[i] : i \in DOMAIN q}

\* A call of binary_search is running / has returned.
Searching == last.op = "binary_search" /\ last.pc = "while"
Searched == last.op = "binary_search" /\ last.pc = "return"

\* C37: binary_search(arr, val) on an ascending list returns, and returns
\* True exactly when val occurs in arr, so False on the empty list; left and
\* right stay within -1 .. len(arr) and every index read is one of arr.
C37_BinarySearch ==
    /\ [](last.op = "binary_search" =>
            /\ last.err = "none"
            /\ last.left \in -1 .. Len(last.args[1])
            /\ last.right \in -1 .. Len(last.args[1])
            /\ \A m \in Elements(last.read) : m \in 0 .. Len(last.args[1]) - 1
            /\ Searched =>
                  last.ret = <<last.args[2] \in Elements(last.args[1])>>)
    /\ (Searching ~> Searched)

\* C37 witness: binary_search has found a value in a list of six elements
\* after moving left up and right down.
C37_Witness ==
    /\ Searched
    /\ last.ret = <<TRUE>>
    /\ Len(last.args[1]) = 6
    /\ last.left > 0
    /\ last.right < 5

====
